---- MODULE Spec2Model ----
(***************************************************************************)
(* Thalassa-Conduit: the data service (data_svc.go) that keeps the LevelDB *)
(* datastore (leveldb_datastore.go) and the HAProxy configuration file     *)
(* (haproxy.go) in agreement.                                              *)
(*                                                                         *)
(* A Go string is a sequence of one-character strings, so that name        *)
(* normalisation, key construction, key ordering and template rendering    *)
(* are computed character by character as the code computes them.          *)
(***************************************************************************)
EXTENDS Integers, Sequences, FiniteSets, TLC

\* ------------------------------------------------------------------------
\* Bounds
\* ------------------------------------------------------------------------

\* number of request goroutines that may call the data service
NumProcs == 2

\* number of data service calls made in one behaviour
MaxCalls == 3

\* number of data service calls made in one behaviour with concurrent calls
MaxConcCalls == 2

Procs == 1..NumProcs

\* ------------------------------------------------------------------------
\* Strings, pointers
\* ------------------------------------------------------------------------

\* the empty Go string
EmptyStr == <<>>

\* a nil pointer / a pointer to a value
Nil == <<>>
Ptr(v) == <<v>>
Deref(p) == p[1]

\* the characters that occur in the model, in ascending byte order
Alphabet ==
  <<"\n"," ","*",".","/","0","1","2","3","4","5","6","7","8","9",":","_",
    "a","b","c","d","e","f","g","h","i","k","l","m","n","o","p","r","s",
    "t","u","v","x">>

\* the byte order of a character
Ord(c) == CHOOSE i \in 1..Len(Alphabet) : Alphabet[i] = c

\* bytes.Compare(a, b) < 0 : the order of LevelDB's default comparer
RECURSIVE BytesLess(_, _)
BytesLess(a, b) ==
  IF b = <<>> THEN FALSE
  ELSE IF a = <<>> THEN TRUE
  ELSE IF Head(a) = Head(b) THEN BytesLess(Tail(a), Tail(b))
  ELSE Ord(Head(a)) < Ord(Head(b))

\* strings.HasPrefix(s, prefix)
HasPrefix(s, prefix) ==
  /\ Len(s) >= Len(prefix)
  /\ SubSeq(s, 1, Len(prefix)) = prefix

\* strconv.Itoa for a non-negative int, as the template prints {{.Port}}
Digits == <<"0","1","2","3","4","5","6","7","8","9">>
RECURSIVE Itoa(_)
Itoa(n) == IF n < 10 THEN <<Digits[n + 1]>>
           ELSE Itoa(n \div 10) \o <<Digits[(n % 10) + 1]>>

\* strings.Replace(name, " ", "_", -1)
RECURSIVE ReplaceSpaces(_)
ReplaceSpaces(s) ==
  IF s = <<>> THEN <<>>
  ELSE <<IF Head(s) = " " THEN "_" ELSE Head(s)>> \o ReplaceSpaces(Tail(s))

\* ------------------------------------------------------------------------
\* Error types
\* ------------------------------------------------------------------------

ErrConflict  == "ErrConflict"
ErrNotFound  == "ErrNotFound"
ErrBadData   == "ErrBadData"
ErrSync      == "ErrSync"
ErrOutOfSync == "ErrOutOfSync"
ErrDB        == "ErrDB"
ErrUnknown   == "ErrUnknown"

\* a nil *Error: the call succeeded
NoError == "nil"

\* the call has not returned yet
Pending == "pending"

\* ------------------------------------------------------------------------
\* Entities
\* ------------------------------------------------------------------------

S_backend  == <<"b","a","c","k","e","n","d">>
S_frontend == <<"f","r","o","n","t","e","n","d">>
S_http     == <<"h","t","t","p">>
S_tcp      == <<"t","c","p">>

\* a BackendMember value
BackendMember(name, version, host, port) ==
  [Name |-> name, Version |-> version, Host |-> host, Port |-> port]

\* a Backend value
Backend(id, ptype, name, version, balance, host, mode, members) ==
  [ID |-> id, ProxyType |-> ptype, Name |-> name, Version |-> version,
   Balance |-> balance, Host |-> host, Mode |-> mode, Members |-> members]

\* a Frontend value
Frontend(id, ptype, name, bind, defaultBackend, mode, option) ==
  [ID |-> id, ProxyType |-> ptype, Name |-> name, Bind |-> bind,
   DefaultBackend |-> defaultBackend, Mode |-> mode, Option |-> option]

\* BackendMember.ToHAProxyBackendMember: Version (and Meta) are dropped
ToHAProxyBackendMember(m) ==
  BackendMember(m.Name, EmptyStr, m.Host, m.Port)

\* BackendMembers.ToHAProxyBackendMembers
ToHAProxyBackendMembers(ms) ==
  [i \in 1..Len(ms) |-> ToHAProxyBackendMember(ms[i])]

\* Backend.ToHAProxyBackend: Version (and Meta) are dropped
ToHAProxyBackend(b) ==
  Backend(EmptyStr, EmptyStr, b.Name, EmptyStr, b.Balance, b.Host, b.Mode,
          ToHAProxyBackendMembers(b.Members))

\* Backends.ToHAProxyBackends
ToHAProxyBackends(bs) == [i \in 1..Len(bs) |-> ToHAProxyBackend(bs[i])]

\* Frontend.ToHAProxyFrontend
ToHAProxyFrontend(f) ==
  Frontend(EmptyStr, EmptyStr, f.Name, f.Bind, f.DefaultBackend, f.Mode, f.Option)

\* Frontends.ToHAProxyFrontends
ToHAProxyFrontends(fs) == [i \in 1..Len(fs) |-> ToHAProxyFrontend(fs[i])]

\* ------------------------------------------------------------------------
\* The names and entities that callers submit
\* ------------------------------------------------------------------------

NameA  == <<"a">>
NameBC == <<"b"," ","c">>
NameB_C == <<"b","_","c">>

\* names given by callers: empty, plain, with a space, with an underscore
NameInputs == {EmptyStr, NameA, NameBC, NameB_C}

Member1 ==
  BackendMember(<<"m","1">>, <<"1">>, <<"1","0",".","0",".","0",".","1">>, 8080)

\* the backends a caller may submit under a name
BackendInputs ==
  { Backend(EmptyStr, EmptyStr, n, <<"1">>, <<"r","o","u","n","d","r","o","b","i","n">>,
            EmptyStr, S_http, <<Member1>>) : n \in NameInputs }
  \cup
  { Backend(EmptyStr, EmptyStr, n, EmptyStr, EmptyStr, EmptyStr, S_tcp, <<>>)
      : n \in NameInputs }

\* the frontends a caller may submit under a name
FrontendInputs ==
  { Frontend(EmptyStr, EmptyStr, n, <<"*",":","8","0">>, NameA, S_http,
             <<"h","t","t","p","l","o","g">>) : n \in NameInputs }
  \cup
  { Frontend(EmptyStr, EmptyStr, n, EmptyStr, EmptyStr, S_tcp, EmptyStr)
      : n \in NameInputs }

\* ------------------------------------------------------------------------
\* LevelDB datastore (leveldb_datastore.go)
\* ------------------------------------------------------------------------

\* a database without keys
EmptyDB == [k \in {} |-> <<>>]

\* fmt.Sprintf("backend/%s", key)
BackendKey(key) == S_backend \o <<"/">> \o key

\* fmt.Sprintf("frontend/%s", key)
FrontendKey(key) == S_frontend \o <<"/">> \o key

\* json.Marshal of a Backend: ID and ProxyType carry the tag json:"-"
MarshalBackend(b) ==
  [Name |-> b.Name, Version |-> b.Version, Balance |-> b.Balance,
   Host |-> b.Host, Mode |-> b.Mode, Members |-> b.Members]

\* json.Unmarshal into &Backend{}: ID and ProxyType stay at their zero value
UnmarshalBackend(j) ==
  Backend(EmptyStr, EmptyStr, j.Name, j.Version, j.Balance, j.Host, j.Mode, j.Members)

\* json.Marshal of a Frontend
MarshalFrontend(f) ==
  [Name |-> f.Name, Bind |-> f.Bind, DefaultBackend |-> f.DefaultBackend,
   Mode |-> f.Mode, Option |-> f.Option]

\* json.Unmarshal into &Frontend{}
UnmarshalFrontend(j) ==
  Frontend(EmptyStr, EmptyStr, j.Name, j.Bind, j.DefaultBackend, j.Mode, j.Option)

\* a Put that keeps the value a key already has
Put_InsertOnly(d, key, value) ==
  [k \in (DOMAIN d) \cup {key} |-> IF k \in DOMAIN d THEN d[k] ELSE value]

\* db.Put(key, value)
Put(d, key, value) ==
  [k \in (DOMAIN d) \cup {key} |-> IF k = key THEN value ELSE d[k]]

\* db.Delete(key): deleting a missing key is not an error
Delete(d, key) == [k \in (DOMAIN d) \ {key} |-> d[k]]

\* an iterator that visits the keys in descending byte order
RECURSIVE SortKeys_Descending(_)
SortKeys_Descending(S) ==
  IF S = {} THEN <<>>
  ELSE LET m == CHOOSE k \in S : \A j \in S \ {k} : BytesLess(j, k)
       IN  <<m>> \o SortKeys_Descending(S \ {m})

\* the keys in S in ascending byte order, as the iterator visits them
RECURSIVE SortKeys(_)
SortKeys(S) ==
  IF S = {} THEN <<>>
  ELSE LET m == CHOOSE k \in S : \A j \in S \ {k} : BytesLess(k, j)
       IN  <<m>> \o SortKeys(S \ {m})

\* db.NewIterator(ldbutil.BytesPrefix(prefix)): the keys with the prefix
IterKeys(d, prefix) == SortKeys({k \in DOMAIN d : HasPrefix(k, prefix)})

\* levelDBDatastore.GetAllBackends, when no read or decode fault occurs
GetAllBackends(d) ==
  LET ks == IterKeys(d, S_backend)
  IN  [i \in 1..Len(ks) |-> UnmarshalBackend(d[ks[i]])]

\* levelDBDatastore.GetAllFrontends, when no read or decode fault occurs
GetAllFrontends(d) ==
  LET ks == IterKeys(d, S_frontend)
  IN  [i \in 1..Len(ks) |-> UnmarshalFrontend(d[ks[i]])]

\* levelDBDatastore.GetBackend, when no read or decode fault occurs:
\* nil when the key is not found
GetBackend(d, key) ==
  IF BackendKey(key) \in DOMAIN d
  THEN Ptr(UnmarshalBackend(d[BackendKey(key)]))
  ELSE Nil

\* levelDBDatastore.GetFrontend, when no read or decode fault occurs
GetFrontend(d, key) ==
  IF FrontendKey(key) \in DOMAIN d
  THEN Ptr(UnmarshalFrontend(d[FrontendKey(key)]))
  ELSE Nil

\* levelDBDatastore.SaveBackend: the caller's object while Put runs
\* (ProxyType and ID are set before the value is marshalled)
SaveBackendTagged(b) ==
  [b EXCEPT !.ProxyType = S_backend, !.ID = S_backend \o <<"/">> \o b.Name]

\* levelDBDatastore.SaveBackend: the database after a successful Put
SaveBackendDB(d, b) ==
  LET t == SaveBackendTagged(b) IN Put(d, t.ID, MarshalBackend(t))

\* a SaveBackend that leaves ID and ProxyType on the caller's object
SaveBackendObj_KeepTags(b, ok) == SaveBackendTagged(b)

\* levelDBDatastore.SaveBackend: the caller's object after the call;
\* ID and ProxyType are cleared only on the success path
SaveBackendObj(b, ok) ==
  IF ok THEN [b EXCEPT !.ProxyType = EmptyStr, !.ID = EmptyStr]
  ELSE SaveBackendTagged(b)

\* levelDBDatastore.SaveFrontend: the caller's object while Put runs
SaveFrontendTagged(f) ==
  [f EXCEPT !.ProxyType = S_frontend, !.ID = S_frontend \o <<"/">> \o f.Name]

\* levelDBDatastore.SaveFrontend: the database after a successful Put
SaveFrontendDB(d, f) ==
  LET t == SaveFrontendTagged(f) IN Put(d, t.ID, MarshalFrontend(t))

\* levelDBDatastore.SaveFrontend: the caller's object after the call
SaveFrontendObj(f, ok) ==
  IF ok THEN [f EXCEPT !.ProxyType = EmptyStr, !.ID = EmptyStr]
  ELSE SaveFrontendTagged(f)

\* a backend delete that also removes the frontends whose DefaultBackend
\* is the deleted backend
DeleteBackendDB_Cascade(d, key) ==
  LET gone == {BackendKey(key)} \cup
              {k \in DOMAIN d : HasPrefix(k, S_frontend) /\ d[k].DefaultBackend = key}
  IN  [k \in (DOMAIN d) \ gone |-> d[k]]

\* levelDBDatastore.DeleteBackend: the database after a successful Delete
DeleteBackendDB(d, key) == Delete(d, BackendKey(key))

\* a frontend delete that builds its key with the backend prefix
DeleteFrontendDB_BackendKey(d, key) == Delete(d, BackendKey(key))

\* levelDBDatastore.DeleteFrontend: the database after a successful Delete
DeleteFrontendDB(d, key) == Delete(d, FrontendKey(key))

\* ------------------------------------------------------------------------
\* HAProxy configuration file (haproxy.go)
\* ------------------------------------------------------------------------

\* defaultTemplate: the text before {{range .Frontends}}
TemplateHead ==
  <<"g","l","o","b","a","l","\n"," "," ","m","a","x","c","o","n","n"," ","2","5","6","\n",
    "\n"," "," ","d","e","f","a","u","l","t","s","\n",
    " "," "," "," ","t","i","m","e","o","u","t"," ","c","o","n","n","e","c","t"," ",
    "5","0","0","0","m","s","\n","\n">>

\* {{if .Field}}<label>{{.Field}}{{end}}
IfSet(label, field) == IF field # EmptyStr THEN label \o field ELSE <<>>

\* defaultTemplate: the body of {{range .Frontends}} for one frontend
RenderFrontend(f) ==
  <<"\n"," "," ","f","r","o","n","t","e","n","d"," ">> \o f.Name
  \o IfSet(<<"\n"," "," "," "," ","b","i","n","d"," ">>, f.Bind)
  \o IfSet(<<"\n"," "," "," "," ","m","o","d","e"," ">>, f.Mode)
  \o IfSet(<<"\n"," "," "," "," ","d","e","f","a","u","l","t","_",
             "b","a","c","k","e","n","d"," ">>, f.DefaultBackend)
  \o IfSet(<<"\n"," "," "," "," ","o","p","t","i","o","n"," ">>, f.Option)
  \o <<"\n">>

\* defaultTemplate: the body of {{range .Members}} for one member
RenderMember(m) ==
  <<"\n"," "," "," "," ","s","e","r","v","e","r"," ">> \o m.Name \o <<" ">>
  \o m.Host \o <<":">> \o Itoa(m.Port)
  \o <<" ","c","h","e","c","k"," ","i","n","t","e","r"," ","2","0","0","0">>

\* {{range .Members}}: the members in the order stored
RECURSIVE RenderMembers(_)
RenderMembers(ms) ==
  IF ms = <<>> THEN <<>> ELSE RenderMember(Head(ms)) \o RenderMembers(Tail(ms))

\* defaultTemplate: the body of {{range .Backends}} for one backend
RenderBackend(b) ==
  <<"\n"," "," ","b","a","c","k","e","n","d"," ">> \o b.Name
  \o IfSet(<<"\n"," "," "," "," ","m","o","d","e"," ">>, b.Mode)
  \o IfSet(<<"\n"," "," "," "," ","b","a","l","a","n","c","e"," ">>, b.Balance)
  \o RenderMembers(b.Members)
  \o <<"\n">>

\* {{range .Frontends}}: the frontends in the order given
RECURSIVE RenderFrontends(_)
RenderFrontends(fs) ==
  IF fs = <<>> THEN <<>> ELSE RenderFrontend(Head(fs)) \o RenderFrontends(Tail(fs))

\* {{range .Backends}}: the backends in the order given
RECURSIVE RenderBackends(_)
RenderBackends(bs) ==
  IF bs = <<>> THEN <<>> ELSE RenderBackend(Head(bs)) \o RenderBackends(Tail(bs))

\* template.Execute of defaultTemplate on {Frontends, Backends}
defaultTemplate(frontends, backends) ==
  TemplateHead
  \o RenderFrontends(frontends) \o <<"\n">>
  \o RenderBackends(backends) \o <<"\n">>

\* the prefixes of text that a failed ioutil.WriteFile may leave in the
\* file: nothing written after the truncating open, or half of the text
PartialWrites(text) == { SubSeq(text, 1, 0), SubSeq(text, 1, Len(text) \div 2) }

\* a WriteConfig that appends the template output to the file it finds
WriteConfig_Patching(old, frontends, backends, ok) ==
  IF ok THEN {old \o defaultTemplate(frontends, backends)} ELSE {old}

\* haProxyImpl.WriteConfig: the file contents the call may leave.
\* Success replaces the file with the template output; on failure the file
\* is untouched (template or open error) or holds a prefix of the output
WriteConfig(old, frontends, backends, ok) ==
  LET text == defaultTemplate(frontends, backends)
  IN  IF ok THEN {text} ELSE {old} \cup PartialWrites(text)

\* ------------------------------------------------------------------------
\* Data service (data_svc.go): state
\* ------------------------------------------------------------------------

VARIABLES
  db,     \* the LevelDB database: key -> stored JSON value
  file,   \* the contents of the HAProxy configuration file
  pc,     \* pc[p]: where goroutine p stands inside its data service call
  call,   \* call[p]: the arguments, locals and result of p's call
  ncalls  \* the number of data service calls made so far

vars == <<db, file, pc, call, ncalls>>

\* which entity kind a data service function works on
IsBackendFn(fn) == fn \in {"SaveBackend", "DeleteBackend"}
IsSaveFn(fn)    == fn \in {"SaveBackend", "SaveFrontend"}
IsDeleteFn(fn)  == fn \in {"DeleteBackend", "DeleteFrontend"}

\* the HTTP request a call is made for: its method and the response status
\* (0 while none is decided); a call made directly carries no request
Request(method, status) == [method |-> method, status |-> status]
NoRequest == Request("", 0)

\* the locals of a goroutine that is in no call
NoCall ==
  [fn |-> "", name |-> EmptyStr, key |-> EmptyStr, ent |-> Nil, old |-> Nil,
   b |-> <<>>, f |-> <<>>, res |-> Pending, log |-> <<>>,
   preDB |-> EmptyDB, preFile |-> <<>>, http |-> NoRequest]

\* one invocation of a collaborator (Datastore or HAProxy) by the call
Event(op, ok) == [op |-> op, ok |-> ok]

\* a call of fn begins with the name the caller gave, the store key it
\* works on and the caller's entity object; it remembers the database and
\* the file it started from
Enter(fn, name, key, ent) ==
  [NoCall EXCEPT !.fn = fn, !.name = name, !.key = key, !.ent = ent,
                 !.preDB = db, !.preFile = file]

\* the call of p returns err
Returns(c, err) == [c EXCEPT !.res = err]

\* a name correction that keeps the name as given
correctName_Identity(name) == name

\* dataSvcImpl.correctName
correctName(name) == ReplaceSpaces(name)

Init ==
  /\ db = EmptyDB
  /\ file = defaultTemplate(<<>>, <<>>)
  /\ pc = [p \in Procs |-> "idle"]
  /\ call = [p \in Procs |-> NoCall]
  /\ ncalls = 0

\* ------------------------------------------------------------------------
\* Data service: entry of the four mutating functions
\* ------------------------------------------------------------------------

\* a name check that lets the empty name through
NameIsValid_Always(name) == TRUE

\* the name check at the head of SaveBackend and SaveFrontend
NameIsValid(name) == name # EmptyStr

\* SaveBackend/SaveFrontend up to the prior-state read: validate the name,
\* then replace the name on the caller's object by the corrected name
SaveEnter(p, fn, e) ==
  /\ pc[p] = "idle"
  /\ ncalls < MaxCalls
  /\ ncalls' = ncalls + 1
  /\ IF ~NameIsValid(e.Name)
     THEN /\ call' = [call EXCEPT ![p] = Returns(Enter(fn, e.Name, e.Name, Ptr(e)), ErrBadData)]
          /\ pc' = [pc EXCEPT ![p] = "done"]
     ELSE LET n == correctName(e.Name)
          IN  /\ call' = [call EXCEPT ![p] = Enter(fn, e.Name, n, Ptr([e EXCEPT !.Name = n]))]
              /\ pc' = [pc EXCEPT ![p] = "get"]
  /\ UNCHANGED <<db, file>>

\* dataSvcImpl.SaveBackend(b)
SaveBackend(p, b) == SaveEnter(p, "SaveBackend", b)

\* dataSvcImpl.SaveFrontend(f)
SaveFrontend(p, f) == SaveEnter(p, "SaveFrontend", f)

\* a delete that validates the key the way a save validates the name
DeleteEnter_Validating(p, fn, key) ==
  /\ pc[p] = "idle"
  /\ ncalls < MaxCalls
  /\ ncalls' = ncalls + 1
  /\ IF ~NameIsValid(key)
     THEN /\ call' = [call EXCEPT ![p] = Returns(Enter(fn, key, key, Nil), ErrBadData)]
          /\ pc' = [pc EXCEPT ![p] = "done"]
     ELSE /\ call' = [call EXCEPT ![p] = Enter(fn, key, key, Nil)]
          /\ pc' = [pc EXCEPT ![p] = "get"]
  /\ UNCHANGED <<db, file>>

\* a delete that corrects the key the way a save corrects the name
DeleteEnter_Normalizing(p, fn, key) ==
  /\ pc[p] = "idle"
  /\ ncalls < MaxCalls
  /\ ncalls' = ncalls + 1
  /\ call' = [call EXCEPT ![p] = Enter(fn, key, correctName(key), Nil)]
  /\ pc' = [pc EXCEPT ![p] = "get"]
  /\ UNCHANGED <<db, file>>

\* DeleteBackend/DeleteFrontend up to the prior-state read: the key is
\* used as given
DeleteEnter(p, fn, key) ==
  /\ pc[p] = "idle"
  /\ ncalls < MaxCalls
  /\ ncalls' = ncalls + 1
  /\ call' = [call EXCEPT ![p] = Enter(fn, key, key, Nil)]
  /\ pc' = [pc EXCEPT ![p] = "get"]
  /\ UNCHANGED <<db, file>>

\* dataSvcImpl.DeleteBackend(key)
DeleteBackend(p, key) == DeleteEnter(p, "DeleteBackend", key)

\* dataSvcImpl.DeleteFrontend(key)
DeleteFrontend(p, key) == DeleteEnter(p, "DeleteFrontend", key)

\* ------------------------------------------------------------------------
\* Data service: prior-state read and store mutation
\* ------------------------------------------------------------------------

\* an existence check that never reports a missing entity
IsMissing_Never(fn, old) == FALSE

\* DeleteBackend/DeleteFrontend: "check that backend to delete exists"
IsMissing(fn, old) == IsDeleteFn(fn) /\ old = Nil

\* old, derr := ds.db.GetBackend(name) / GetFrontend(name); a delete of a
\* missing entity returns ErrNotFound here
GetOld(p) ==
  /\ pc[p] = "get"
  /\ \E ok \in BOOLEAN :
       LET c   == [call[p] EXCEPT !.log = Append(@, Event("db.Get", ok))]
           old == IF IsBackendFn(c.fn) THEN GetBackend(db, c.key)
                                       ELSE GetFrontend(db, c.key)
       IN  IF ~ok
           THEN /\ call' = [call EXCEPT ![p] = Returns(c, ErrDB)]
                /\ pc' = [pc EXCEPT ![p] = "done"]
           ELSE IF IsMissing(c.fn, old)
           THEN /\ call' = [call EXCEPT ![p] = Returns(c, ErrNotFound)]
                /\ pc' = [pc EXCEPT ![p] = "done"]
           ELSE /\ call' = [call EXCEPT ![p] = [c EXCEPT !.old = old]]
                /\ pc' = [pc EXCEPT ![p] = "apply"]
  /\ UNCHANGED <<db, file, ncalls>>

\* a datastore save that reports success and stores nothing
DBSave_Dropping(d, isBackend, e) == d

\* Datastore.SaveBackend / SaveFrontend on the entity e: the database after
DBSave(d, isBackend, e) ==
  IF isBackend THEN SaveBackendDB(d, e) ELSE SaveFrontendDB(d, e)

\* Datastore.SaveBackend / SaveFrontend on the entity e: the object after
ObjSave(isBackend, e, ok) ==
  IF isBackend THEN SaveBackendObj(e, ok) ELSE SaveFrontendObj(e, ok)

\* Datastore.DeleteBackend / DeleteFrontend: the database after
DBDelete(d, isBackend, key) ==
  IF isBackend THEN DeleteBackendDB(d, key) ELSE DeleteFrontendDB(d, key)

\* a store mutation whose error is not looked at
AfterApply_IgnoreError(ok) == "syncB"

\* a call that goes from the store mutation straight to WriteConfig
AfterApply_SkipReadAll(ok) == IF ok THEN "write" ELSE "done"

\* where the call continues after the store mutation returned
AfterApply(ok) == IF ok THEN "syncB" ELSE "done"

\* execute save / execute delete: a store error is returned at once
Apply(p) ==
  /\ pc[p] = "apply"
  /\ \E ok \in BOOLEAN :
       LET c0  == call[p]
           isB == IsBackendFn(c0.fn)
           c   == IF IsSaveFn(c0.fn)
                  THEN [c0 EXCEPT !.log = Append(@, Event("db.Save", ok)),
                                  !.ent = Ptr(ObjSave(isB, Deref(c0.ent), ok))]
                  ELSE [c0 EXCEPT !.log = Append(@, Event("db.Delete", ok))]
       IN  /\ db' = IF ~ok THEN db
                    ELSE IF IsSaveFn(c0.fn) THEN DBSave(db, isB, Deref(c0.ent))
                    ELSE DBDelete(db, isB, c0.key)
           /\ call' = [call EXCEPT ![p] = IF ok THEN c ELSE Returns(c, ErrDB)]
           /\ pc' = [pc EXCEPT ![p] = AfterApply(ok)]
  /\ UNCHANGED <<file, ncalls>>

\* ------------------------------------------------------------------------
\* Data service: syncHAProxy
\* ------------------------------------------------------------------------

\* sync(): b, derr := ds.db.GetAllBackends(); an error goes to the rollback
SyncGetAllBackends(p) ==
  /\ pc[p] = "syncB"
  /\ \E ok \in BOOLEAN :
       LET c == [call[p] EXCEPT !.log = Append(@, Event("db.GetAllBackends", ok))]
       IN  IF ok
           THEN /\ call' = [call EXCEPT ![p] = [c EXCEPT !.b = GetAllBackends(db)]]
                /\ pc' = [pc EXCEPT ![p] = "syncF"]
           ELSE /\ call' = [call EXCEPT ![p] = c]
                /\ pc' = [pc EXCEPT ![p] = "rollback"]
  /\ UNCHANGED <<db, file, ncalls>>

\* sync(): f, err := ds.db.GetAllFrontends(); an error goes to the rollback
SyncGetAllFrontends(p) ==
  /\ pc[p] = "syncF"
  /\ \E ok \in BOOLEAN :
       LET c == [call[p] EXCEPT !.log = Append(@, Event("db.GetAllFrontends", ok))]
       IN  IF ok
           THEN /\ call' = [call EXCEPT ![p] = [c EXCEPT !.f = GetAllFrontends(db)]]
                /\ pc' = [pc EXCEPT ![p] = "write"]
           ELSE /\ call' = [call EXCEPT ![p] = c]
                /\ pc' = [pc EXCEPT ![p] = "rollback"]
  /\ UNCHANGED <<db, file, ncalls>>

\* a sync() that goes on to the reload whatever WriteConfig returned
AfterWriteConfig_IgnoreError(ok) == "reload"

\* a sync() that writes the configuration again after a failed write
AfterWriteConfig_Retry(ok) == IF ok THEN "reload" ELSE "write"

\* where syncHAProxy continues after ds.ha.WriteConfig returned
AfterWriteConfig(ok) == IF ok THEN "reload" ELSE "rollback"

\* sync(): ds.ha.WriteConfig(f.ToHAProxyFrontends(), b.ToHAProxyBackends())
SyncWriteConfig(p) ==
  /\ pc[p] = "write"
  /\ \E ok \in BOOLEAN :
       LET c == [call[p] EXCEPT !.log = Append(@, Event("ha.WriteConfig", ok))]
       IN  /\ file' \in WriteConfig(file, ToHAProxyFrontends(c.f),
                                    ToHAProxyBackends(c.b), ok)
           /\ call' = [call EXCEPT ![p] = c]
           /\ pc' = [pc EXCEPT ![p] = AfterWriteConfig(ok)]
  /\ UNCHANGED <<db, ncalls>>

\* a rollback that removes the entity whatever the prior state was
RollbackDB_AlwaysDelete(d, c) == DBDelete(d, IsBackendFn(c.fn), c.key)

\* a rollback that reports success and leaves the database as it is
RollbackDB_Noop(d, c) == d

\* the closure `rollback` built by the four mutating functions: the
\* database after it ran without error
RollbackDB(d, c) ==
  LET isB == IsBackendFn(c.fn)
  IN  IF c.old # Nil
      THEN DBSave(d, isB, Deref(c.old))
      ELSE DBDelete(d, isB, Deref(c.ent).Name)

\* a rollback whose own error is not escalated
RollbackResult_AlwaysSync(ok) == ErrSync

\* a syncHAProxy that hands the rollback's own error to the caller as it is
RollbackResult_PassThrough(ok) == IF ok THEN ErrSync ELSE ErrDB

\* the error type syncHAProxy returns after sync() failed
RollbackResult(ok) == IF ok THEN ErrSync ELSE ErrOutOfSync

\* syncHAProxy: sync() failed, so rollback() runs
Rollback(p) ==
  /\ pc[p] = "rollback"
  /\ \E ok \in BOOLEAN :
       LET c == [call[p] EXCEPT !.log = Append(@, Event("rollback", ok))]
       IN  /\ db' = IF ok THEN RollbackDB(db, c) ELSE db
           /\ call' = [call EXCEPT ![p] = Returns(c, RollbackResult(ok))]
           /\ pc' = [pc EXCEPT ![p] = "done"]
  /\ UNCHANGED <<file, ncalls>>

\* a syncHAProxy that reports a failed reload as an error of unknown type
ReloadResult_Unknown(ok) == IF ok THEN NoError ELSE ErrUnknown

\* the error type syncHAProxy returns after ds.ha.ReloadConfig returned
ReloadResult(ok) == IF ok THEN NoError ELSE ErrSync

\* a reload that is given up after a while: the command has not returned,
\* and the call goes on to the compensating action
ReloadConfig_Timeout(p) ==
  /\ pc[p] = "reload"
  /\ pc' = [pc EXCEPT ![p] = "rollback"]
  /\ UNCHANGED <<db, file, call, ncalls>>

\* syncHAProxy: sync() succeeded, so ds.ha.ReloadConfig() runs
ReloadConfig(p) ==
  /\ pc[p] = "reload"
  /\ \E ok \in BOOLEAN :
       LET c == [call[p] EXCEPT !.log = Append(@, Event("ha.ReloadConfig", ok))]
       IN  /\ call' = [call EXCEPT ![p] = Returns(c, ReloadResult(ok))]
           /\ pc' = [pc EXCEPT ![p] = "done"]
  /\ UNCHANGED <<db, file, ncalls>>

\* the caller takes the result; the goroutine is free for its next request
Return(p) ==
  /\ pc[p] = "done"
  /\ pc' = [pc EXCEPT ![p] = "idle"]
  /\ call' = [call EXCEPT ![p] = NoCall]
  /\ UNCHANGED <<db, file, ncalls>>

\* ------------------------------------------------------------------------
\* Specification: requests are served one at a time
\* ------------------------------------------------------------------------

\* no goroutine is inside a data service call
AllIdle == \A q \in Procs : pc[q] = "idle"

Next ==
  \E p \in Procs :
    \/ AllIdle /\ \E b \in BackendInputs : SaveBackend(p, b)
    \/ AllIdle /\ \E f \in FrontendInputs : SaveFrontend(p, f)
    \/ AllIdle /\ \E key \in NameInputs : DeleteBackend(p, key)
    \/ AllIdle /\ \E key \in NameInputs : DeleteFrontend(p, key)
    \/ GetOld(p)
    \/ Apply(p)
    \/ SyncGetAllBackends(p)
    \/ SyncGetAllFrontends(p)
    \/ SyncWriteConfig(p)
    \/ Rollback(p)
    \/ ReloadConfig(p)
    \/ Return(p)

Spec == Init /\ [][Next]_vars

\* ------------------------------------------------------------------------
\* Specification: requests are served concurrently. The HTTP server runs
\* each request in its own goroutine and the data service holds no lock, so
\* the steps of the calls interleave freely
\* ------------------------------------------------------------------------

\* the names that concurrent callers use
ConcNames == {NameA, NameB_C}

\* the backends and frontends that concurrent callers submit
ConcBackendInputs == {b \in BackendInputs : b.Name \in ConcNames}
ConcFrontendInputs == {f \in FrontendInputs : f.Name \in ConcNames}

\* a concurrent behaviour may still begin a call
MayCall == ncalls < MaxConcCalls

NextConc ==
  \E p \in Procs :
    \/ MayCall /\ \E b \in ConcBackendInputs : SaveBackend(p, b)
    \/ MayCall /\ \E f \in ConcFrontendInputs : SaveFrontend(p, f)
    \/ MayCall /\ \E key \in ConcNames : DeleteBackend(p, key)
    \/ MayCall /\ \E key \in ConcNames : DeleteFrontend(p, key)
    \/ GetOld(p)
    \/ Apply(p)
    \/ SyncGetAllBackends(p)
    \/ SyncGetAllFrontends(p)
    \/ SyncWriteConfig(p)
    \/ Rollback(p)
    \/ ReloadConfig(p)
    \/ Return(p)

SpecConc == Init /\ [][NextConc]_vars

\* ------------------------------------------------------------------------
\* Specification: concurrent requests on one backend name. Each request is
\* served in a goroutine of its own, which makes one data service call and
\* ends; its call record stays as it was when the call returned
\* ------------------------------------------------------------------------

\* the backends that the racing callers submit: all under the name "a"
RaceBackendInputs == {b \in BackendInputs : b.Name = NameA}

\* goroutine p has not served its request yet; the goroutines are numbered
\* in the order in which their requests arrive
Fresh(p) ==
  /\ pc[p] = "idle" /\ call[p] = NoCall /\ MayCall
  /\ \A q \in Procs : q < p => call[q] # NoCall

NextRace ==
  \E p \in Procs :
    \/ Fresh(p) /\ \E b \in RaceBackendInputs : SaveBackend(p, b)
    \/ Fresh(p) /\ DeleteBackend(p, NameA)
    \/ GetOld(p)
    \/ Apply(p)
    \/ SyncGetAllBackends(p)
    \/ SyncGetAllFrontends(p)
    \/ SyncWriteConfig(p)
    \/ Rollback(p)
    \/ ReloadConfig(p)

SpecRace == Init /\ [][NextRace]_vars

\* ------------------------------------------------------------------------
\* HTTP handlers (backend_handlers.go, frontend_handlers.go): PUT, POST and
\* DELETE of /backends/{name} and /frontends/{name}. A handler calls the
\* data service and answers with a status code; a panic of the handler is
\* answered by the recovery middleware
\* ------------------------------------------------------------------------

\* net/http status codes
StatusOK == 200
StatusCreated == 201
StatusNoContent == 204
StatusBadRequest == 400
StatusNotFound == 404
StatusInternalServerError == 500

\* the number of HTTP requests in a behaviour
MaxRequests == 2

\* the {name} of a request path: the router matches no empty name
HttpNames == {NameA, NameBC, NameB_C}

\* the JSON documents sent as request bodies, field -> value for the fields
\* the document names: whole entities, and the one field {"mode": "tcp"}
HttpBackendBodies ==
  {b \in BackendInputs : b.Name \in {EmptyStr, NameA} /\ b.Mode = S_http}
  \cup {[Mode |-> S_tcp]}
HttpFrontendBodies ==
  {f \in FrontendInputs : f.Name \in {EmptyStr, NameA} /\ f.Mode = S_http}
  \cup {[Mode |-> S_tcp]}

\* &Backend{} / &Frontend{}: the entity a PUT decodes its body into
ZeroEntity(fn) ==
  IF IsBackendFn(fn)
  THEN Backend(EmptyStr, EmptyStr, EmptyStr, EmptyStr, EmptyStr, EmptyStr, EmptyStr, <<>>)
  ELSE Frontend(EmptyStr, EmptyStr, EmptyStr, EmptyStr, EmptyStr, EmptyStr, EmptyStr)

\* the fields json leaves alone: ID and ProxyType carry the tag json:"-"
Untagged == {"ID", "ProxyType"}

\* enc.Decode(body, e): the fields the document names replace the fields of
\* the entity, the other fields of the entity are kept
DecodeInto(existing, body) ==
  [field \in DOMAIN existing |->
     IF field \in DOMAIN body \ Untagged THEN body[field] ELSE existing[field]]

\* svc.GetBackend(name) / svc.GetFrontend(name) as the handlers call it
SvcGet(fn, name) ==
  IF IsBackendFn(fn) THEN GetBackend(db, name) ELSE GetFrontend(db, name)

\* the handler has answered the request with status
Answer(c, status) == [c EXCEPT !.http.status = status]

\* a PUT that answers 200 whether or not the entity existed
PutStatus_AlwaysOK(existing) == StatusOK

\* PutBackend/PutFrontend: status := http.StatusOK;
\* if existing == nil { status = http.StatusCreated }
PutStatus(existing) == IF existing = Nil THEN StatusCreated ELSE StatusOK

\* svc.SaveBackend(b) / svc.SaveFrontend(f) called by a handler for request
\* r, up to the prior-state read
HandlerSave(p, c0, e, r) ==
  IF ~NameIsValid(e.Name)
  THEN /\ call' = [call EXCEPT ![p] =
            Returns([c0 EXCEPT !.ent = Ptr(e), !.http = r], ErrBadData)]
       /\ pc' = [pc EXCEPT ![p] = "done"]
  ELSE LET n == correctName(e.Name)
       IN  /\ call' = [call EXCEPT ![p] =
                [c0 EXCEPT !.key = n, !.ent = Ptr([e EXCEPT !.Name = n]), !.http = r]]
           /\ pc' = [pc EXCEPT ![p] = "get"]

\* PutBackend / PutFrontend up to the prior-state read of the save: decode
\* the body, take the name from the path, look the name up to choose
\* between 201 and 200, then save
PutHandler(p, fn, name, body, valid) ==
  /\ pc[p] = "idle"
  /\ ncalls < MaxRequests
  /\ ncalls' = ncalls + 1
  /\ UNCHANGED <<db, file>>
  /\ LET e  == [DecodeInto(ZeroEntity(fn), body) EXCEPT !.Name = name]
         c0 == [Enter(fn, name, name, Nil) EXCEPT !.http = Request("PUT", 0)]
     IN  IF ~valid
         THEN /\ call' = [call EXCEPT ![p] = Answer(c0, StatusBadRequest)]
              /\ pc' = [pc EXCEPT ![p] = "responded"]
         ELSE \E ok \in BOOLEAN :
                LET c1 == [c0 EXCEPT !.log = <<Event("svc.Get", ok)>>]
                IN  IF ~ok
                    THEN /\ call' = [call EXCEPT ![p] =
                              Answer(c1, StatusInternalServerError)]
                         /\ pc' = [pc EXCEPT ![p] = "responded"]
                    ELSE HandlerSave(p, c1, e,
                                     Request("PUT", PutStatus(SvcGet(fn, name))))

\* the status the handlers answer when the entity does not exist
notFound_OK == StatusOK

\* util.notFound
notFound == StatusNotFound

\* PostBackend / PostFrontend up to the prior-state read of the save: look
\* the name up, answer 404 when nothing is found, decode the body into the
\* entity found, then save
PostHandler(p, fn, name, body, valid) ==
  /\ pc[p] = "idle"
  /\ ncalls < MaxRequests
  /\ ncalls' = ncalls + 1
  /\ UNCHANGED <<db, file>>
  /\ \E ok \in BOOLEAN :
       LET c0 == [Enter(fn, name, name, Nil) EXCEPT
                    !.http = Request("POST", 0), !.log = <<Event("svc.Get", ok)>>]
           existing == SvcGet(fn, name)
       IN  IF ~ok
           THEN /\ call' = [call EXCEPT ![p] = Answer(c0, StatusInternalServerError)]
                /\ pc' = [pc EXCEPT ![p] = "responded"]
           ELSE IF existing = Nil
           THEN /\ call' = [call EXCEPT ![p] = Answer(c0, notFound)]
                /\ pc' = [pc EXCEPT ![p] = "responded"]
           ELSE IF ~valid
           THEN /\ call' = [call EXCEPT ![p] = Answer(c0, StatusBadRequest)]
                /\ pc' = [pc EXCEPT ![p] = "responded"]
           ELSE HandlerSave(p, c0, DecodeInto(Deref(existing), body),
                            Request("POST", StatusOK))

\* DeleteBackend / DeleteFrontend (handler) up to the prior-state read of
\* the delete: svc.DeleteBackend(key) with the name of the path
DeleteHandler(p, fn, name) ==
  /\ pc[p] = "idle"
  /\ ncalls < MaxRequests
  /\ ncalls' = ncalls + 1
  /\ UNCHANGED <<db, file>>
  /\ call' = [call EXCEPT ![p] =
       [Enter(fn, name, name, Nil) EXCEPT !.http = Request("DELETE", 0)]]
  /\ pc' = [pc EXCEPT ![p] = "get"]

\* a delete handler that answers 200 after a delete
DeletedStatus_OK == StatusOK

\* DeleteBackend / DeleteFrontend (handler): the status after the service
\* returned nil
DeletedStatus == StatusNoContent

\* handlers that answer the status of success whatever the service returned
ResponseStatus_Swallowing(c) ==
  IF IsSaveFn(c.fn) THEN c.http.status ELSE DeletedStatus

\* the status a handler answers after the data service returned:
\* ErrBadData of a save is 400, ErrNotFound of a delete is 404, any other
\* error is a panic
ResponseStatus(c) ==
  IF IsSaveFn(c.fn)
  THEN IF c.res = NoError THEN c.http.status
       ELSE IF c.res = ErrBadData THEN StatusBadRequest
       ELSE StatusInternalServerError
  ELSE IF c.res = NoError THEN DeletedStatus
       ELSE IF c.res = ErrNotFound THEN notFound
       ELSE StatusInternalServerError

\* the data service has returned to the handler, which writes the response
Respond(p) ==
  /\ pc[p] = "done"
  /\ call' = [call EXCEPT ![p] = Answer(call[p], ResponseStatus(call[p]))]
  /\ pc' = [pc EXCEPT ![p] = "responded"]
  /\ UNCHANGED <<db, file, ncalls>>

\* the response is sent; the goroutine is free for its next request
Finish(p) ==
  /\ pc[p] = "responded"
  /\ pc' = [pc EXCEPT ![p] = "idle"]
  /\ call' = [call EXCEPT ![p] = NoCall]
  /\ UNCHANGED <<db, file, ncalls>>

NextHttp ==
  \E p \in Procs :
    \/ AllIdle /\ \E name \in HttpNames, body \in HttpBackendBodies, valid \in BOOLEAN :
                    PutHandler(p, "SaveBackend", name, body, valid)
    \/ AllIdle /\ \E name \in HttpNames, body \in HttpFrontendBodies, valid \in BOOLEAN :
                    PutHandler(p, "SaveFrontend", name, body, valid)
    \/ AllIdle /\ \E name \in HttpNames, body \in HttpBackendBodies, valid \in BOOLEAN :
                    PostHandler(p, "SaveBackend", name, body, valid)
    \/ AllIdle /\ \E name \in HttpNames, body \in HttpFrontendBodies, valid \in BOOLEAN :
                    PostHandler(p, "SaveFrontend", name, body, valid)
    \/ AllIdle /\ \E name \in HttpNames : DeleteHandler(p, "DeleteBackend", name)
    \/ AllIdle /\ \E name \in HttpNames : DeleteHandler(p, "DeleteFrontend", name)
    \/ GetOld(p)
    \/ Apply(p)
    \/ SyncGetAllBackends(p)
    \/ SyncGetAllFrontends(p)
    \/ SyncWriteConfig(p)
    \/ Rollback(p)
    \/ ReloadConfig(p)
    \/ Respond(p)
    \/ Finish(p)

SpecHttp == Init /\ [][NextHttp]_vars

\* ------------------------------------------------------------------------
\* The datastore on its own (leveldb_datastore.go): one client calls the
\* Datastore methods one after another on a database that starts empty, as
\* levelDBTestCase.execute does
\* ------------------------------------------------------------------------

\* what LevelDB or the JSON decoder may report during a read
StoreFaults == {"none", "read", "decode"}

\* the entities a client may hand to Datastore.SaveBackend: fresh ones, and
\* objects that still carry the ID and ProxyType of an earlier failed save
StoreBackendInputs ==
  BackendInputs \cup {SaveBackendTagged(b) : b \in {x \in BackendInputs : x.Name = NameA}}

\* the entities a client may hand to Datastore.SaveFrontend
StoreFrontendInputs ==
  FrontendInputs \cup {SaveFrontendTagged(f) : f \in {x \in FrontendInputs : x.Name = NameA}}

\* the kind prefix of a Datastore method's keys
KindOf(isBackend) == IF isBackend THEN S_backend ELSE S_frontend

\* the LevelDB key a Datastore method builds from its key argument
FullKey(isBackend, key) == IF isBackend THEN BackendKey(key) ELSE FrontendKey(key)

\* nothing was saved yet
NoneSaved == [k \in {} |-> <<>>]

\* the client's book of what it saved and did not delete since:
\* <<kind, name>> -> the object as the client holds it after the save
Saved(p) == IF pc[p] = "store" THEN call[p].saved ELSE NoneSaved

\* the book after the client saved e
Remember(sv, kind, e) ==
  [k \in (DOMAIN sv) \cup {<<kind, e.Name>>} |->
     IF k = <<kind, e.Name>> THEN e ELSE sv[k]]

\* the book after the client deleted name
Forget(sv, kind, name) == [k \in (DOMAIN sv) \ {<<kind, name>>} |-> sv[k]]

\* the client's last Datastore call: method, key argument, the caller's
\* object after the call, the returned value, the returned error, the
\* fault met, the database before the call, and the client's book
StoreCall(fn, isBackend, key, obj, out, res, fault, sv) ==
  [fn |-> fn, isBackend |-> isBackend, key |-> key, obj |-> obj, out |-> out,
   res |-> res, fault |-> fault, preDB |-> db, saved |-> sv]

\* the goroutine of the one client of the datastore
Client == CHOOSE p \in Procs : TRUE

\* p is the client, and no other goroutine uses the datastore
IsClient(p) ==
  /\ p = Client
  /\ pc[p] \in {"idle", "store"}
  /\ \A q \in Procs \ {p} : pc[q] = "idle"

\* levelDBDatastore.SaveBackend / SaveFrontend
LdbSave(p, fn, isBackend, e) ==
  /\ IsClient(p)
  /\ ncalls < MaxCalls
  /\ ncalls' = ncalls + 1
  /\ \E ok \in BOOLEAN :
       LET obj == ObjSave(isBackend, e, ok)
       IN  /\ db' = IF ok THEN DBSave(db, isBackend, e) ELSE db
           /\ call' = [call EXCEPT ![p] =
                StoreCall(fn, isBackend, e.Name, Ptr(obj), Nil,
                          IF ok THEN NoError ELSE ErrDB,
                          IF ok THEN "none" ELSE "write",
                          IF ok THEN Remember(Saved(p), KindOf(isBackend), obj)
                                ELSE Saved(p))]
  /\ pc' = [pc EXCEPT ![p] = "store"]
  /\ UNCHANGED file

\* levelDBDatastore.SaveBackend(b)
LdbSaveBackend(p, b) == LdbSave(p, "Datastore.SaveBackend", TRUE, b)

\* levelDBDatastore.SaveFrontend(f)
LdbSaveFrontend(p, f) == LdbSave(p, "Datastore.SaveFrontend", FALSE, f)

\* levelDBDatastore.DeleteBackend / DeleteFrontend
LdbDelete(p, fn, isBackend, key) ==
  /\ IsClient(p)
  /\ ncalls < MaxCalls
  /\ ncalls' = ncalls + 1
  /\ \E ok \in BOOLEAN :
       /\ db' = IF ok THEN DBDelete(db, isBackend, key) ELSE db
       /\ call' = [call EXCEPT ![p] =
            StoreCall(fn, isBackend, key, Nil, Nil,
                      IF ok THEN NoError ELSE ErrDB,
                      IF ok THEN "none" ELSE "write",
                      IF ok THEN Forget(Saved(p), KindOf(isBackend), key)
                            ELSE Saved(p))]
  /\ pc' = [pc EXCEPT ![p] = "store"]
  /\ UNCHANGED file

\* levelDBDatastore.DeleteBackend(key)
LdbDeleteBackend(p, key) == LdbDelete(p, "Datastore.DeleteBackend", TRUE, key)

\* levelDBDatastore.DeleteFrontend(key)
LdbDeleteFrontend(p, key) == LdbDelete(p, "Datastore.DeleteFrontend", FALSE, key)

\* a Get that reports a key that is not found as a database error
GetError_NotFoundIsError(found, fault) ==
  IF fault = "read" \/ ~found THEN ErrDB
  ELSE IF fault = "decode" THEN ErrDB
  ELSE NoError

\* GetBackend/GetFrontend: the error type returned. leveldb.ErrNotFound is
\* no error; any other error of db.Get, and an error of json.Unmarshal on
\* the bytes found, is ErrDB
GetError(found, fault) ==
  IF fault = "read" THEN ErrDB
  ELSE IF ~found THEN NoError
  ELSE IF fault = "decode" THEN ErrDB
  ELSE NoError

\* levelDBDatastore.GetBackend / GetFrontend
LdbGet(p, fn, isBackend, key) ==
  /\ IsClient(p)
  /\ \E fault \in StoreFaults :
       LET res == GetError(FullKey(isBackend, key) \in DOMAIN db, fault)
           out == IF res # NoError THEN Nil
                  ELSE IF isBackend THEN GetBackend(db, key)
                  ELSE GetFrontend(db, key)
       IN  call' = [call EXCEPT ![p] =
             StoreCall(fn, isBackend, key, Nil, out, res, fault, Saved(p))]
  /\ pc' = [pc EXCEPT ![p] = "store"]
  /\ UNCHANGED <<db, file, ncalls>>

\* levelDBDatastore.GetBackend(key)
LdbGetBackend(p, key) == LdbGet(p, "Datastore.GetBackend", TRUE, key)

\* levelDBDatastore.GetFrontend(key)
LdbGetFrontend(p, key) == LdbGet(p, "Datastore.GetFrontend", FALSE, key)

\* GetAllBackends/GetAllFrontends: the error type returned. json.Unmarshal
\* runs on each of the n values visited; iter.Error() is looked at last
GetAllError(n, fault) ==
  IF fault = "decode" /\ n > 0 THEN ErrDB
  ELSE IF fault = "read" THEN ErrDB
  ELSE NoError

\* levelDBDatastore.GetAllBackends / GetAllFrontends: a non-nil slice, or
\* nil with an error
LdbGetAll(p, fn, isBackend) ==
  /\ IsClient(p)
  /\ \E fault \in StoreFaults :
       LET res == GetAllError(Len(IterKeys(db, KindOf(isBackend))), fault)
           out == IF res # NoError THEN Nil
                  ELSE IF isBackend THEN Ptr(GetAllBackends(db))
                  ELSE Ptr(GetAllFrontends(db))
       IN  call' = [call EXCEPT ![p] =
             StoreCall(fn, isBackend, EmptyStr, Nil, out, res, fault, Saved(p))]
  /\ pc' = [pc EXCEPT ![p] = "store"]
  /\ UNCHANGED <<db, file, ncalls>>

\* levelDBDatastore.GetAllBackends()
LdbGetAllBackends(p) == LdbGetAll(p, "Datastore.GetAllBackends", TRUE)

\* levelDBDatastore.GetAllFrontends()
LdbGetAllFrontends(p) == LdbGetAll(p, "Datastore.GetAllFrontends", FALSE)

NextStore ==
  \E p \in Procs :
    \/ \E b \in StoreBackendInputs : LdbSaveBackend(p, b)
    \/ \E f \in StoreFrontendInputs : LdbSaveFrontend(p, f)
    \/ \E key \in NameInputs : LdbDeleteBackend(p, key)
    \/ \E key \in NameInputs : LdbDeleteFrontend(p, key)
    \/ \E key \in NameInputs : LdbGetBackend(p, key)
    \/ \E key \in NameInputs : LdbGetFrontend(p, key)
    \/ LdbGetAllBackends(p)
    \/ LdbGetAllFrontends(p)

SpecStore == Init /\ [][NextStore]_vars

\* ------------------------------------------------------------------------
\* Configuration (GetConfig): defaults, then the config file named by -f,
\* then the command-line flags, then validation
\* ------------------------------------------------------------------------

\* the settings of Config
Settings == {"Port", "HAConfigPath", "HATemplatePath", "HAReloadCommand", "DBPath"}

\* GetConfig: the values config starts with
DefaultConfig ==
  [Port |-> <<"8","0","8","0">>, HAConfigPath |-> <<"/","e","t","c","/","h","a","p","r","o","x","y","/","h","a","p","r","o","x","y",".","c","f","g">>,
   HATemplatePath |-> <<"h","a","p","r","o","x","y",".","t","m","p","l">>, HAReloadCommand |-> <<"s","e","r","v","i","c","e"," ","h","a","p","r","o","x","y"," ","r","e","l","o","a","d">>,
   DBPath |-> <<"/","v","a","r","/","d","b","/","c","o","n","d","u","i","t">>]

\* the values a command line gives: each flag is absent (its default, the
\* empty string) or carries a value
FlagValue ==
  [Port |-> <<"9","0","0","0">>, HAConfigPath |-> <<"/","v","a","r","/","l","i","b","/","h","a","p","r","o","x","y",".","c","f","g">>,
   HATemplatePath |-> <<"h","a","p","r","o","x","y",".","t","x","t">>, HAReloadCommand |-> <<"r","e","l","o","a","d">>,
   DBPath |-> <<"/","v","a","r","/","l","i","b","/","c","o","n","d","u","i","t">>]
FlagInputs ==
  {[s \in Settings |-> IF s \in given THEN FlagValue[s] ELSE EmptyStr] :
     given \in SUBSET Settings}

\* the JSON documents a config file may hold: setting -> value, for the
\* settings the document names
FullDoc ==
  [Port |-> <<"3","0","0","0">>, HAConfigPath |-> <<"t","e","s","t","-","f","i","x","t","u","r","e","s","/","h","a","p","r","o","x","y",".","c","f","g">>,
   HATemplatePath |-> <<"t","e","x","t","-","f","i","x","t","u","r","e","s","/","t","e","m","p","l","a","t","e",".","t","x","t">>,
   HAReloadCommand |-> <<"r","e","l","o","a","d"," ","h","a","p","r","o","x","y">>, DBPath |-> <<"/","v","a","r","/","d","b","/","c","o","n","d","u","i","t">>]
Restrict(doc, keys) == [s \in keys |-> doc[s]]
DocInputs ==
  { FullDoc,
    Restrict(FullDoc, {}),
    Restrict(FullDoc, {"Port"}),
    Restrict(FullDoc, {"Port", "HAConfigPath", "HAReloadCommand"}),
    [FullDoc EXCEPT !.Port = <<"0">>],
    [FullDoc EXCEPT !.DBPath = EmptyStr] }

\* what -f names: nothing, a file that does not exist, a file that cannot
\* be read or decoded, or a file holding a JSON document
NoFile == [kind |-> "none", doc |-> Restrict(FullDoc, {})]
FileInputs ==
  {NoFile, [NoFile EXCEPT !.kind = "missing"], [NoFile EXCEPT !.kind = "invalid"]}
  \cup {[kind |-> "json", doc |-> doc] : doc \in DocInputs}

\* the locals of GetConfig: the parsed flags, the file named by -f, the
\* config built so far and the errors returned
ConfigCall(flags, cfile, config, errs) ==
  [flags |-> flags, cfile |-> cfile, config |-> config, errs |-> errs]

\* the process has parsed its flags: flag.Parse() has returned
InitConfig ==
  /\ db = EmptyDB
  /\ file = defaultTemplate(<<>>, <<>>)
  /\ ncalls = 0
  /\ pc = [p \in Procs |-> IF p = Client THEN "parsed" ELSE "idle"]
  /\ \E flags \in FlagInputs, cfile \in FileInputs :
       call = [p \in Procs |->
                 IF p = Client THEN ConfigCall(flags, cfile, DefaultConfig, <<>>)
                 ELSE NoCall]

\* decoder.Decode(config): the settings the document names replace the
\* values config holds
DecodeConfig(config, doc) ==
  [s \in Settings |-> IF s \in DOMAIN doc THEN doc[s] ELSE config[s]]

\* readConfigFile: the error returned, "" for none
ReadConfigFileError(cfile) ==
  IF cfile.kind = "missing" THEN "does not exist"
  ELSE IF cfile.kind = "invalid" THEN "unable to load"
  ELSE ""

\* GetConfig: if a config file was specified, load config from it
LoadConfigFile(p) ==
  /\ pc[p] = "parsed"
  /\ LET c == call[p]
         err == ReadConfigFileError(c.cfile)
     IN  IF c.cfile.kind = "none"
         THEN /\ pc' = [pc EXCEPT ![p] = "loaded"]
              /\ call' = call
         ELSE IF err # ""
         THEN /\ pc' = [pc EXCEPT ![p] = "configured"]
              /\ call' = [call EXCEPT ![p] = [c EXCEPT !.errs = <<err>>]]
         ELSE /\ pc' = [pc EXCEPT ![p] = "loaded"]
              /\ call' = [call EXCEPT ![p] =
                   [c EXCEPT !.config = DecodeConfig(c.config, c.cfile.doc)]]
  /\ UNCHANGED <<db, file, ncalls>>

\* a GetConfig in which the flags fill in only what the file left empty
OverwriteSetting_FileFirst(value, flag) == IF value = EmptyStr THEN flag ELSE value

\* GetConfig: if *port != "" { config.Port = *port }, and so on
OverwriteSetting(value, flag) == IF flag # EmptyStr THEN flag ELSE value

\* GetConfig: if flags are specified, overwrite any config file values
OverwriteFromFlags(p) ==
  /\ pc[p] = "loaded"
  /\ pc' = [pc EXCEPT ![p] = "overwritten"]
  /\ call' = [call EXCEPT ![p] =
       [call[p] EXCEPT !.config =
          [s \in Settings |-> OverwriteSetting(call[p].config[s], call[p].flags[s])]]]
  /\ UNCHANGED <<db, file, ncalls>>

\* the value of a decimal digit
DigitValue(ch) == CHOOSE n \in 0..9 : <<"0","1","2","3","4","5","6","7","8","9">>[n + 1] = ch

\* strconv.Atoi accepts s: an optional sign and one or more digits
AtoiDigits(s) == IF s # <<>> /\ s[1] \in {"+", "-"} THEN Tail(s) ELSE s
AtoiOK(s) ==
  /\ AtoiDigits(s) # <<>>
  /\ \A i \in 1..Len(AtoiDigits(s)) :
       AtoiDigits(s)[i] \in {"0","1","2","3","4","5","6","7","8","9"}

\* the number that the digits d denote
RECURSIVE DecimalValue(_)
DecimalValue(d) ==
  IF d = <<>> THEN 0
  ELSE 10 * DecimalValue(SubSeq(d, 1, Len(d) - 1)) + DigitValue(d[Len(d)])

\* strconv.Atoi of an accepted s
Atoi(s) == IF s[1] = "-" THEN 0 - DecimalValue(AtoiDigits(s)) ELSE DecimalValue(AtoiDigits(s))

\* the lowest and the highest port number
MinPort == 1
MaxPort == 65535

\* validateConfig: the error for the port, if any
PortErrors(port) ==
  IF port = EmptyStr THEN <<"a port value is required">>
  ELSE IF ~AtoiOK(port) \/ Atoi(port) < MinPort \/ Atoi(port) > MaxPort
  THEN <<"port value is invalid">>
  ELSE <<>>

\* validateConfig: the error for a setting that must not be empty
RequiredError(value, msg) == IF value = EmptyStr THEN <<msg>> ELSE <<>>

\* validateConfig
validateConfig(config) ==
  PortErrors(config.Port)
  \o RequiredError(config.HAConfigPath, "an haconfig value is required")
  \o RequiredError(config.HATemplatePath, "an hatemplate value is required")
  \o RequiredError(config.HAReloadCommand, "a hareload value is required")
  \o RequiredError(config.DBPath, "a database path value is required")

\* GetConfig: validate the loaded config values and return
ValidateConfig(p) ==
  /\ pc[p] = "overwritten"
  /\ pc' = [pc EXCEPT ![p] = "configured"]
  /\ call' = [call EXCEPT ![p] = [call[p] EXCEPT !.errs = validateConfig(call[p].config)]]
  /\ UNCHANGED <<db, file, ncalls>>

NextConfig ==
  \E p \in Procs :
    \/ LoadConfigFile(p)
    \/ OverwriteFromFlags(p)
    \/ ValidateConfig(p)

SpecConfig == InitConfig /\ [][NextConfig]_vars

\* ------------------------------------------------------------------------
\* HAProxy configuration file (haproxy.go): reading the entities back
\* ------------------------------------------------------------------------

\* the longest configuration text, in lines, and the longest entity list
\* handed to WriteConfig
MaxLines == 4
MaxEntities == 2

\* strings.Split(s, sep) for a separator of one character
RECURSIVE Split(_, _)
Split(s, sep) ==
  IF \A i \in 1..Len(s) : s[i] # sep THEN <<s>>
  ELSE LET i == CHOOSE k \in 1..Len(s) :
                  s[k] = sep /\ \A j \in 1..(k-1) : s[j] # sep
       IN  <<SubSeq(s, 1, i-1)>> \o Split(SubSeq(s, i+1, Len(s)), sep)

\* unicode.IsSpace on the characters a configuration text holds
IsSpace(ch) == ch \in {" ", "\n", "\t", "\r"}

\* a TrimSpace that leaves the line as it is
TrimSpace_None(s) == s

\* strings.TrimSpace(s)
TrimSpace(s) ==
  IF \A i \in 1..Len(s) : IsSpace(s[i]) THEN EmptyStr
  ELSE LET first == CHOOSE i \in 1..Len(s) :
                      ~IsSpace(s[i]) /\ \A j \in 1..(i-1) : IsSpace(s[j])
           last  == CHOOSE i \in 1..Len(s) :
                      ~IsSpace(s[i]) /\ \A j \in (i+1)..Len(s) : IsSpace(s[j])
       IN  SubSeq(s, first, last)

\* haProxyImpl.parseConfigText: the lines of the text, each one trimmed
parseConfigText(s) ==
  LET lines == Split(s, "\n")
  IN  [i \in 1..Len(lines) |-> TrimSpace(lines[i])]

\* strings.HasPrefix(l, prefix) && len(l) > len(prefix)
Directive(l, prefix) == HasPrefix(l, prefix) /\ Len(l) > Len(prefix)

\* l[len(prefix):]
After(l, prefix) == SubSeq(l, Len(prefix) + 1, Len(l))

P_frontend        == <<"f","r","o","n","t","e","n","d"," ">>
P_backend         == <<"b","a","c","k","e","n","d"," ">>
P_bind            == <<"b","i","n","d"," ">>
P_mode            == <<"m","o","d","e"," ">>
P_default_backend == <<"d","e","f","a","u","l","t","_","b","a","c","k","e","n","d"," ">>
P_option          == <<"o","p","t","i","o","n"," ">>
P_balance         == <<"b","a","l","a","n","c","e"," ">>
P_server          == <<"s","e","r","v","e","r"," ">>

\* the sublines the inner loop of GetFrontends / GetBackends reads for the
\* header at line i: from line i+1 to the line before the next empty line,
\* or to the last line
RECURSIVE Sublines(_, _)
Sublines(lines, index) ==
  IF lines[index] = EmptyStr THEN <<>>
  ELSE IF index + 1 > Len(lines) THEN <<lines[index]>>
  ELSE <<lines[index]>> \o Sublines(lines, index + 1)

\* GetFrontends: what one subline sets on the frontend
FrontendSubline(f, subline) ==
  IF Directive(subline, P_bind) THEN [f EXCEPT !.Bind = After(subline, P_bind)]
  ELSE IF Directive(subline, P_mode) THEN [f EXCEPT !.Mode = After(subline, P_mode)]
  ELSE IF Directive(subline, P_default_backend)
       THEN [f EXCEPT !.DefaultBackend = After(subline, P_default_backend)]
  ELSE IF Directive(subline, P_option) THEN [f EXCEPT !.Option = After(subline, P_option)]
  ELSE f

\* GetFrontends: the inner loop over the sublines of one frontend
RECURSIVE ReadFrontend(_, _)
ReadFrontend(f, sublines) ==
  IF sublines = <<>> THEN f
  ELSE ReadFrontend(FrontendSubline(f, Head(sublines)), Tail(sublines))

\* the result of GetFrontends / GetBackends: the entities returned, the
\* error returned, and whether the call panicked instead of returning
NoParseError == [kind |-> "none", name |-> EmptyStr]
ReadFileError == [kind |-> "read", name |-> EmptyStr]
MembersError(name) == [kind |-> "members", name |-> name]
Parsed(out) == [out |-> Ptr(out), err |-> NoParseError, fault |-> "none"]
ParseFailed(err) == [out |-> Nil, err |-> err, fault |-> "none"]
IndexOutOfRange == [out |-> Nil, err |-> NoParseError, fault |-> "panic"]

\* GetFrontends: the outer loop from line i on. A header in the last line
\* makes lines[i+1] an index out of range
RECURSIVE ScanFrontends(_, _)
ScanFrontends(lines, i) ==
  IF i > Len(lines) THEN Parsed(<<>>)
  ELSE IF ~Directive(lines[i], P_frontend) THEN ScanFrontends(lines, i + 1)
  ELSE IF i + 1 > Len(lines) THEN IndexOutOfRange
  ELSE LET f == ReadFrontend(
                  Frontend(EmptyStr, EmptyStr, After(lines[i], P_frontend),
                           EmptyStr, EmptyStr, EmptyStr, EmptyStr),
                  Sublines(lines, i + 1))
           rest == ScanFrontends(lines, i + 1)
       IN  IF rest.out = Nil THEN rest ELSE Parsed(<<f>> \o Deref(rest.out))

\* haProxyImpl.GetFrontends on the file contents
GetFrontends(text, ok) ==
  IF ~ok THEN ParseFailed(ReadFileError)
  ELSE ScanFrontends(parseConfigText(text), 1)

\* strings.Index(s, ch) for one character, counted from 1; 0 when absent
Index(s, ch) ==
  IF \A i \in 1..Len(s) : s[i] # ch THEN 0
  ELSE CHOOSE i \in 1..Len(s) : s[i] = ch /\ \A j \in 1..(i-1) : s[j] # ch

\* a server line read as any other line: no member, no error
ServerLine_Skipping(subline) == [ok |-> TRUE, members |-> <<>>]

\* GetBackends: the member a server line gives, or the failure to read it
ServerLine(subline) ==
  LET parts == Split(After(subline, P_server), " ")
      j     == Index(parts[2], ":")
      port  == SubSeq(parts[2], j + 1, Len(parts[2]))
  IN  IF Len(parts) # 5 THEN [ok |-> FALSE, members |-> <<>>]
      ELSE IF j = 0 THEN [ok |-> FALSE, members |-> <<>>]
      ELSE IF ~AtoiOK(port) THEN [ok |-> FALSE, members |-> <<>>]
      ELSE [ok |-> TRUE,
            members |-> <<BackendMember(parts[1], EmptyStr,
                                        SubSeq(parts[2], 1, j - 1), Atoi(port))>>]

\* GetBackends: what one subline sets on the backend; ok is FALSE once a
\* server line could not be read
BackendSubline(r, subline) ==
  IF ~r.ok THEN r
  ELSE IF Directive(subline, P_balance)
       THEN [r EXCEPT !.b = [r.b EXCEPT !.Balance = After(subline, P_balance)]]
  ELSE IF Directive(subline, P_mode)
       THEN [r EXCEPT !.b = [r.b EXCEPT !.Mode = After(subline, P_mode)]]
  ELSE IF Directive(subline, P_server)
       THEN LET s == ServerLine(subline)
            IN  [ok |-> s.ok,
                 b  |-> [r.b EXCEPT !.Members = r.b.Members \o s.members]]
  ELSE r

\* GetBackends: the inner loop over the sublines of one backend
RECURSIVE ReadBackend(_, _)
ReadBackend(r, sublines) ==
  IF sublines = <<>> THEN r
  ELSE ReadBackend(BackendSubline(r, Head(sublines)), Tail(sublines))

\* GetBackends: the outer loop from line i on
RECURSIVE ScanBackends(_, _)
ScanBackends(lines, i) ==
  IF i > Len(lines) THEN Parsed(<<>>)
  ELSE IF ~Directive(lines[i], P_backend) THEN ScanBackends(lines, i + 1)
  ELSE IF i + 1 > Len(lines) THEN IndexOutOfRange
  ELSE LET name == After(lines[i], P_backend)
           r == ReadBackend(
                  [ok |-> TRUE,
                   b  |-> Backend(EmptyStr, EmptyStr, name, EmptyStr, EmptyStr,
                                  EmptyStr, EmptyStr, <<>>)],
                  Sublines(lines, i + 1))
       IN  IF ~r.ok THEN ParseFailed(MembersError(name))
           ELSE LET rest == ScanBackends(lines, i + 1)
                IN  IF rest.out = Nil THEN rest
                    ELSE Parsed(<<r.b>> \o Deref(rest.out))

\* haProxyImpl.GetBackends on the file contents
GetBackends(text, ok) ==
  IF ~ok THEN ParseFailed(ReadFileError)
  ELSE ScanBackends(parseConfigText(text), 1)

\* ------------------------------------------------------------------------
\* HAProxy configuration file: the calls of one client of the HAProxy
\* interface
\* ------------------------------------------------------------------------

\* the lines a configuration text is made of
ConfigLines ==
  { EmptyStr,
    <<"f","r","o","n","t","e","n","d"," ","a">>,
    <<"b","a","c","k","e","n","d"," ","a">>,
    <<"b","a","c","k","e","n","d"," ","b">>,
    <<" "," ","m","o","d","e"," ","h","t","t","p">>,
    <<"b","i","n","d"," ","*",":","8","0">>,
    <<" "," "," "," ","s","e","r","v","e","r"," ","m"," ","h",":","1"," ","c","h","e","c","k"," ","i","n","t","e","r"," ","2","0","0","0">>,
    <<"s","e","r","v","e","r"," ","m"," ","h",":","x"," ","c","h","e","c","k"," ","i","n","t","e","r"," ","2","0","0","0">>,
    <<"s","e","r","v","e","r"," ","m"," ","h"," ","c","h","e","c","k"," ","i","n","t","e","r"," ","2","0","0","0">>,
    <<"s","e","r","v","e","r"," ","m"," ","h",":","1">> }

\* strings.Join(lines, "\n")
RECURSIVE Join(_)
Join(lines) ==
  IF Len(lines) = 1 THEN lines[1]
  ELSE lines[1] \o <<"\n">> \o Join(Tail(lines))

\* the configuration texts HAProxy's file may hold: one to MaxLines lines;
\* a text ends with a newline when its last line is empty
ConfigTexts ==
  UNION { { Join(lines) : lines \in [1..n -> ConfigLines] } : n \in 1..MaxLines }

\* the frontends handed to WriteConfig: all fields set, the name alone, no
\* name
HaFrontendInputs ==
  { Frontend(EmptyStr, EmptyStr, NameA, <<"*",":","8","0">>, NameB_C, S_http, <<"h","t","t","p","l","o","g">>),
    Frontend(EmptyStr, EmptyStr, NameB_C, EmptyStr, EmptyStr, EmptyStr, EmptyStr),
    Frontend(EmptyStr, EmptyStr, EmptyStr, EmptyStr, EmptyStr, S_tcp, EmptyStr) }

\* the backends handed to WriteConfig: two members, the name alone, a
\* version on the backend and its member, no name
HaBackendInputs ==
  { Backend(EmptyStr, EmptyStr, NameB_C, EmptyStr, <<"r","o","u","n","d","r","o","b","i","n">>, EmptyStr, S_http,
            << BackendMember(<<"m","1">>, EmptyStr, <<"1","0",".","0",".","0",".","1">>, 8080),
               BackendMember(<<"m","0">>, EmptyStr, <<"h">>, 80) >>),
    Backend(EmptyStr, EmptyStr, NameA, EmptyStr, EmptyStr, EmptyStr, EmptyStr, <<>>),
    Backend(EmptyStr, EmptyStr, NameA, <<"1">>, EmptyStr, EmptyStr, S_tcp, <<Member1>>),
    Backend(EmptyStr, EmptyStr, EmptyStr, EmptyStr, EmptyStr, EmptyStr, S_tcp, <<>>) }

\* the lists of at most MaxEntities entities
ListsOf(inputs) == UNION { [1..n -> inputs] : n \in 0..MaxEntities }

\* what WriteConfig was given
Written(frontends, backends) == [Frontends |-> frontends, Backends |-> backends]

\* the client's last call of the HAProxy interface: method, result, and the
\* entities the file was last written from (Nil when no WriteConfig
\* succeeded)
HaCall(fn, r, written) ==
  [fn |-> fn, out |-> r.out, err |-> r.err, fault |-> r.fault, text |-> file,
   written |-> written]

\* the entities the file was written from before p's call
WrittenBefore(p) == IF call[p] = NoCall THEN Nil ELSE call[p].written

\* p is the one client of the HAProxy interface
IsHaClient(p) ==
  /\ p = Client
  /\ pc[p] \in {"idle", "ha"}
  /\ \A q \in Procs \ {p} : pc[q] = "idle"

\* haProxyImpl.WriteConfig(frontends, backends), the first call of the client
HaWriteConfig(p, frontends, backends) ==
  /\ IsHaClient(p)
  /\ pc[p] = "idle"
  /\ \E ok \in BOOLEAN :
       /\ file' \in WriteConfig(file, frontends, backends, ok)
       /\ call' = [call EXCEPT ![p] =
            HaCall("WriteConfig",
                   IF ok THEN ParseFailed(NoParseError)
                         ELSE ParseFailed([kind |-> "write", name |-> EmptyStr]),
                   IF ok THEN Ptr(Written(frontends, backends)) ELSE Nil)]
  /\ pc' = [pc EXCEPT ![p] = "ha"]
  /\ UNCHANGED <<db, ncalls>>

\* haProxyImpl.GetFrontends()
HaGetFrontends(p) ==
  /\ IsHaClient(p)
  /\ \E ok \in BOOLEAN :
       call' = [call EXCEPT ![p] =
         HaCall("GetFrontends", GetFrontends(file, ok), WrittenBefore(p))]
  /\ pc' = [pc EXCEPT ![p] = "ha"]
  /\ UNCHANGED <<db, file, ncalls>>

\* haProxyImpl.GetBackends()
HaGetBackends(p) ==
  /\ IsHaClient(p)
  /\ \E ok \in BOOLEAN :
       call' = [call EXCEPT ![p] =
         HaCall("GetBackends", GetBackends(file, ok), WrittenBefore(p))]
  /\ pc' = [pc EXCEPT ![p] = "ha"]
  /\ UNCHANGED <<db, file, ncalls>>

\* the file holds any configuration text when the client starts reading
InitParse ==
  /\ db = EmptyDB
  /\ file \in ConfigTexts
  /\ pc = [p \in Procs |-> "idle"]
  /\ call = [p \in Procs |-> NoCall]
  /\ ncalls = 0

NextParse ==
  \E p \in Procs :
    \/ HaGetFrontends(p)
    \/ HaGetBackends(p)

\* reading configuration texts
SpecParse == InitParse /\ [][NextParse]_vars

NextRoundTrip ==
  \E p \in Procs :
    \/ \E frontends \in ListsOf(HaFrontendInputs), backends \in ListsOf(HaBackendInputs) :
         HaWriteConfig(p, frontends, backends)
    \/ HaGetFrontends(p)
    \/ HaGetBackends(p)

\* writing the file from entities and reading them back
SpecRoundTrip == Init /\ [][NextRoundTrip]_vars

\* ------------------------------------------------------------------------
\* Server stop (conduit.go): serverImpl.Stop, SignalShutdown, SignalRestart
\* and waitForSignal. The main goroutine waits for a signal and stops the
\* server; request handlers stop it through SignalShutdown / SignalRestart.
\* The serverImpl that start() constructs is kept in the record of the main
\* goroutine; the handlers reach it by reference
\* ------------------------------------------------------------------------

\* the main goroutine (start, waitForSignal)
Main == Client

\* make(chan int, 1) and make(chan os.Signal, 1)
ChanCap == 1

\* NewServer: the serverImpl; stopChan with what it buffers, the number of
\* values sent on it and of close calls made on it, and whether Run's
\* goroutine received from it; signalChan with the signals it buffers;
\* fault is the runtime panic that ended the process
NewServer ==
  [shutdown   |-> FALSE,
   stopChan   |-> [buf |-> 0, sent |-> 0, closed |-> 0, received |-> FALSE],
   signalChan |-> <<>>,
   fault      |-> "none"]

\* the serverImpl
Server == call[Main].server

\* a goroutine's record: the function it runs, whether a write of
\* s.shutdown happens before its next read, the signal waitForSignal took
StopCall(fn, sees, sig, server) ==
  [fn |-> fn, sees |-> sees, sig |-> sig, server |-> server]

\* goroutine p goes on with record own, the serverImpl becomes s
ServerStep(p, own, s) ==
  call' = [q \in Procs |->
             LET c == IF q = p THEN own ELSE call[q]
             IN  IF q = Main THEN [c EXCEPT !.server = Ptr(s)] ELSE c]

\* the process runs: no goroutine has panicked
Running == Deref(Server).fault = "none"

InitStop ==
  /\ db = EmptyDB
  /\ file = defaultTemplate(<<>>, <<>>)
  /\ ncalls = 0
  /\ pc = [p \in Procs |-> IF p = Main THEN "waitForSignal" ELSE "idle"]
  /\ call = [p \in Procs |->
               StopCall("", FALSE, "", IF p = Main THEN Ptr(NewServer) ELSE Nil)]

\* signal.Notify: the operating system delivers SIGHUP or an interrupt on
\* signalChan; the signal is dropped when the channel is full
OsSignal(sig) ==
  /\ Running
  /\ ncalls < MaxCalls
  /\ ncalls' = ncalls + 1
  /\ LET s == Deref(Server)
     IN  /\ Len(s.signalChan) < ChanCap
         /\ ServerStep(Main, call[Main],
              [s EXCEPT !.signalChan = Append(@, [sig |-> sig, hb |-> FALSE])])
  /\ UNCHANGED <<db, file, pc>>

\* waitForSignal: sig := <-signalChan, then server.Stop()
WaitForSignal(p) ==
  /\ Running
  /\ p = Main /\ pc[p] = "waitForSignal"
  /\ LET s == Deref(Server)
     IN  /\ s.signalChan # <<>>
         /\ ServerStep(p,
              StopCall("Stop", call[p].sees \/ Head(s.signalChan).hb,
                       Head(s.signalChan).sig, call[p].server),
              [s EXCEPT !.signalChan = Tail(@)])
  /\ pc' = [pc EXCEPT ![p] = "check"]
  /\ UNCHANGED <<db, file, ncalls>>

\* a request handler calls server.SignalShutdown() or server.SignalRestart()
\* (GetRestart), which calls s.Stop() first
SignalEnter(p, fn) ==
  /\ Running
  /\ p # Main /\ pc[p] = "idle"
  /\ ncalls < MaxCalls
  /\ ncalls' = ncalls + 1
  /\ call' = [call EXCEPT ![p] = StopCall(fn, call[p].sees, "", Nil)]
  /\ pc' = [pc EXCEPT ![p] = "check"]
  /\ UNCHANGED <<db, file>>

\* Stop: the values the unsynchronized read of s.shutdown may give. A write
\* by another goroutine that no channel operation orders before the read
\* may or may not be seen
ShutdownRead(p) ==
  IF Deref(Server).shutdown /\ ~call[p].sees THEN {TRUE, FALSE}
  ELSE {Deref(Server).shutdown}

\* Stop: if !s.shutdown
StopCheck(p) ==
  /\ Running
  /\ pc[p] = "check"
  /\ \E shutdown \in ShutdownRead(p) :
       pc' = [pc EXCEPT ![p] = IF shutdown THEN "after" ELSE "set"]
  /\ UNCHANGED <<db, file, call, ncalls>>

\* Stop: s.shutdown = true
StopSet(p) ==
  /\ Running
  /\ pc[p] = "set"
  /\ ServerStep(p, [call[p] EXCEPT !.sees = TRUE],
                [Deref(Server) EXCEPT !.shutdown = TRUE])
  /\ pc' = [pc EXCEPT ![p] = "send"]
  /\ UNCHANGED <<db, file, ncalls>>

\* Stop: s.stopChan <- 1. The send blocks while the buffer is full and
\* panics on a closed channel
StopSend(p) ==
  /\ Running
  /\ pc[p] = "send"
  /\ LET s == Deref(Server)
     IN  IF s.stopChan.closed > 0
         THEN /\ ServerStep(p, call[p], [s EXCEPT !.fault = "send on closed channel"])
              /\ UNCHANGED pc
         ELSE /\ s.stopChan.buf < ChanCap
              /\ ServerStep(p, call[p],
                   [s EXCEPT !.stopChan.buf = @ + 1, !.stopChan.sent = @ + 1])
              /\ pc' = [pc EXCEPT ![p] = "close"]
  /\ UNCHANGED <<db, file, ncalls>>

\* Stop: <-time.After(s.timeout); close(s.stopChan). Closing a closed
\* channel panics
StopClose(p) ==
  /\ Running
  /\ pc[p] = "close"
  /\ LET s == Deref(Server)
     IN  IF s.stopChan.closed > 0
         THEN /\ ServerStep(p, call[p], [s EXCEPT !.fault = "close of closed channel"])
              /\ UNCHANGED pc
         ELSE /\ ServerStep(p, call[p], [s EXCEPT !.stopChan.closed = @ + 1])
              /\ pc' = [pc EXCEPT ![p] = "after"]
  /\ UNCHANGED <<db, file, ncalls>>

\* Run: the goroutine that waits on <-s.stopChan and closes the listener
StopListener ==
  /\ Running
  /\ LET s == Deref(Server)
     IN  /\ ~s.stopChan.received
         /\ s.stopChan.buf > 0 \/ s.stopChan.closed > 0
         /\ ServerStep(Main, call[Main],
              [s EXCEPT !.stopChan.buf = IF @ > 0 THEN @ - 1 ELSE @,
                        !.stopChan.received = TRUE])
  /\ UNCHANGED <<db, file, pc, ncalls>>

\* the signal SignalShutdown / SignalRestart sends after s.Stop()
SignalOf(fn) == IF fn = "SignalShutdown" THEN "SIGINT" ELSE "SIGHUP"

\* Stop has returned. SignalShutdown / SignalRestart send their signal on
\* signalChan (the send blocks while the channel is full) and return, the
\* handler's goroutine being free for its next request; waitForSignal
\* returns to start()
StopReturn(p) ==
  /\ Running
  /\ pc[p] = "after"
  /\ IF p = Main
     THEN /\ pc' = [pc EXCEPT ![p] = "returned"]
          /\ UNCHANGED call
     ELSE LET s == Deref(Server)
          IN  /\ Len(s.signalChan) < ChanCap
              /\ ServerStep(p, call[p],
                   [s EXCEPT !.signalChan =
                      Append(@, [sig |-> SignalOf(call[p].fn), hb |-> call[p].sees])])
              /\ pc' = [pc EXCEPT ![p] = "idle"]
  /\ UNCHANGED <<db, file, ncalls>>

NextStop ==
  \/ \E sig \in {"SIGHUP", "SIGINT"} : OsSignal(sig)
  \/ StopListener
  \/ \E p \in Procs :
       \/ WaitForSignal(p)
       \/ SignalEnter(p, "SignalShutdown")
       \/ SignalEnter(p, "SignalRestart")
       \/ StopCheck(p)
       \/ StopSet(p)
       \/ StopSend(p)
       \/ StopClose(p)
       \/ StopReturn(p)

\* stopping the server
SpecStop == InitStop /\ [][NextStop]_vars

\* ------------------------------------------------------------------------
\* Vocabulary of the properties
\* ------------------------------------------------------------------------

\* the call invoked the collaborator operation op
Invoked(c, op) == \E i \in 1..Len(c.log) : c.log[i].op = op

\* the call invoked op and op returned an error
Failed(c, op) == \E i \in 1..Len(c.log) : c.log[i].op = op /\ ~c.log[i].ok

\* the call invoked op and op returned no error
Succeeded(c, op) == \E i \in 1..Len(c.log) : c.log[i].op = op /\ c.log[i].ok

\* goroutine p is inside a call (returned or not)
InCall(p) == pc[p] # "idle"

\* the call of goroutine p has returned and its result is in call[p].res
Returned(p) == pc[p] = "done"

\* what a Get of the call's key returns from database d
StoredIn(d, c) ==
  IF IsBackendFn(c.fn) THEN GetBackend(d, c.key) ELSE GetFrontend(d, c.key)

\* what a Get of the name the caller gave returns from database d
StoredUnderName(d, c) ==
  IF IsBackendFn(c.fn) THEN GetBackend(d, c.name) ELSE GetFrontend(d, c.name)

\* the synchronize step (read all, render, reload) failed somewhere
SyncStepFailed(c) ==
  \/ Failed(c, "db.GetAllBackends")
  \/ Failed(c, "db.GetAllFrontends")
  \/ Failed(c, "ha.WriteConfig")
  \/ Failed(c, "ha.ReloadConfig")

\* sync() on database d without faults: the text that WriteConfig is
\* given to write, from the complete entity sets of d
SyncText(d) ==
  defaultTemplate(ToHAProxyFrontends(GetAllFrontends(d)),
                  ToHAProxyBackends(GetAllBackends(d)))

\* the database right after the store mutation of call c was applied to
\* the database the call started from
Applied(c) ==
  IF IsSaveFn(c.fn)
  THEN DBSave(c.preDB, IsBackendFn(c.fn), Deref(c.ent))
  ELSE DBDelete(c.preDB, IsBackendFn(c.fn), c.key)

\* the call made no store mutation, no render and no reload
NoMutationNoSync(c) ==
  /\ ~Invoked(c, "db.Save")
  /\ ~Invoked(c, "db.Delete")
  /\ ~Invoked(c, "db.GetAllBackends")
  /\ ~Invoked(c, "db.GetAllFrontends")
  /\ ~Invoked(c, "ha.WriteConfig")
  /\ ~Invoked(c, "ha.ReloadConfig")
  /\ ~Invoked(c, "rollback")

\* ------------------------------------------------------------------------
\* C1
\* ------------------------------------------------------------------------

\* C1 as stated: a SaveBackend/SaveFrontend on a name that holds e, during
\* which WriteConfig fails, returns ErrSync and leaves e under that name.
C1_AsStated ==
  \A p \in Procs :
    LET c == call[p]
    IN  ( /\ Returned(p) /\ IsSaveFn(c.fn)
          /\ StoredUnderName(c.preDB, c) # Nil
          /\ Failed(c, "ha.WriteConfig") )
        => /\ c.res = ErrSync
           /\ StoredUnderName(db, c) = StoredUnderName(c.preDB, c)

\* C1 (amended): a SaveBackend/SaveFrontend on a name that holds e, during
\* which WriteConfig fails, runs the compensating re-save of e; when that
\* re-save succeeds the call returns ErrSync and a Get of the name returns
\* e, and when it fails the call returns ErrOutOfSync.
C1_RollbackOnWriteFailure ==
  \A p \in Procs :
    LET c == call[p]
    IN  ( /\ Returned(p) /\ IsSaveFn(c.fn)
          /\ StoredUnderName(c.preDB, c) # Nil
          /\ Failed(c, "ha.WriteConfig") )
        => /\ Invoked(c, "rollback")
           /\ Succeeded(c, "rollback") =>
                /\ c.res = ErrSync
                /\ StoredUnderName(db, c) = StoredUnderName(c.preDB, c)
           /\ Failed(c, "rollback") => c.res = ErrOutOfSync

\* an update with a value other than the stored one was rolled back
C1_Witness ==
  \E p \in Procs :
    LET c == call[p]
    IN  /\ Returned(p) /\ IsSaveFn(c.fn)
        /\ StoredUnderName(c.preDB, c) # Nil
        /\ StoredUnderName(c.preDB, c) # c.ent
        /\ Failed(c, "ha.WriteConfig")
        /\ c.res = ErrSync
        /\ StoredUnderName(db, c) = StoredUnderName(c.preDB, c)

\* ------------------------------------------------------------------------
\* C2, C3
\* ------------------------------------------------------------------------

\* C2: in every save or delete in which WriteConfig succeeds and
\* ReloadConfig fails, the store mutation of the call is reversed: when the
\* call returns ErrSync the database equals the database before the call.
C2_ReloadFailureReverted ==
  \A p \in Procs :
    LET c == call[p]
    IN  ( /\ Returned(p)
          /\ Succeeded(c, "ha.WriteConfig")
          /\ Failed(c, "ha.ReloadConfig")
          /\ c.res = ErrSync )
        => db = c.preDB

\* C3: whenever a save or delete returns ErrSync, the configuration file
\* has the content it had before the call.
C3_FileUntouchedOnErrSync ==
  \A p \in Procs :
    LET c == call[p]
    IN  (Returned(p) /\ c.res = ErrSync) => file = c.preFile

\* ------------------------------------------------------------------------
\* C4, C5
\* ------------------------------------------------------------------------

\* C4: a SaveBackend/SaveFrontend on a name that holds no entity, whose
\* synchronize step fails and whose compensating action does not fail,
\* has deleted the new entity by the compensating action, returns ErrSync,
\* and a Get of the name returns nil afterwards.
C4_CreateRolledBack ==
  \A p \in Procs :
    LET c == call[p]
    IN  ( /\ Returned(p) /\ IsSaveFn(c.fn)
          /\ StoredIn(c.preDB, c) = Nil
          /\ SyncStepFailed(c)
          /\ ~Failed(c, "rollback") )
        => /\ Succeeded(c, "rollback")
           /\ c.res = ErrSync
           /\ StoredIn(db, c) = Nil

\* C5: a DeleteBackend/DeleteFrontend of an existing entity e, whose
\* synchronize step fails and whose compensating action does not fail,
\* returns ErrSync and e is stored again under its name with its value.
C5_DeleteRolledBack ==
  \A p \in Procs :
    LET c == call[p]
    IN  ( /\ Returned(p) /\ IsDeleteFn(c.fn)
          /\ StoredIn(c.preDB, c) # Nil
          /\ SyncStepFailed(c)
          /\ ~Failed(c, "rollback") )
        => /\ c.res = ErrSync
           /\ StoredIn(db, c) = StoredIn(c.preDB, c)

\* ------------------------------------------------------------------------
\* C6
\* ------------------------------------------------------------------------

\* C6: a save or delete returns ErrOutOfSync exactly when its
\* regeneration/reload step failed and its compensating store action
\* failed too, and the failed compensating action is the last thing the
\* call did.
C6_OutOfSyncExactly ==
  \A p \in Procs :
    LET c == call[p]
    IN  Returned(p) =>
          /\ c.res = ErrOutOfSync <=> (SyncStepFailed(c) /\ Failed(c, "rollback"))
          /\ c.res = ErrOutOfSync => c.log[Len(c.log)] = Event("rollback", FALSE)

\* a call returned ErrOutOfSync with the mutation still in the database
C6_Witness ==
  \E p \in Procs :
    LET c == call[p]
    IN  /\ Returned(p)
        /\ c.res = ErrOutOfSync
        /\ db # c.preDB

\* ------------------------------------------------------------------------
\* C7, C8
\* ------------------------------------------------------------------------

\* C7: a SaveBackend/SaveFrontend with an empty Name returns ErrBadData
\* without any Datastore call, WriteConfig or ReloadConfig, and leaves the
\* database and the file as they were.
C7_EmptyNameSave ==
  \A p \in Procs :
    LET c == call[p]
    IN  (InCall(p) /\ IsSaveFn(c.fn) /\ c.name = EmptyStr)
        => /\ Returned(p)
           /\ c.res = ErrBadData
           /\ c.log = <<>>
           /\ db = c.preDB
           /\ file = c.preFile

\* a save without name was rejected while entities were stored
C7_Witness ==
  \E p \in Procs :
    LET c == call[p]
    IN  /\ Returned(p) /\ IsSaveFn(c.fn) /\ c.name = EmptyStr
        /\ c.res = ErrBadData
        /\ db # EmptyDB

\* C8 as stated: a DeleteBackend/DeleteFrontend with an empty name fails
\* with ErrBadData and makes no store access.
C8_AsStated ==
  \A p \in Procs :
    LET c == call[p]
    IN  (InCall(p) /\ IsDeleteFn(c.fn) /\ c.name = EmptyStr)
        => /\ Returned(p)
           /\ c.res = ErrBadData
           /\ c.log = <<>>

\* C8 (amended): a DeleteBackend/DeleteFrontend with an empty name is not
\* validated: its one collaborator call is the prior-state read of the
\* store, and it returns ErrNotFound when that read succeeds (no entity is
\* stored under the empty name) and ErrDB when it fails; the database and
\* the file stay as they were.
C8_EmptyNameDelete ==
  \A p \in Procs :
    LET c == call[p]
    IN  (Returned(p) /\ IsDeleteFn(c.fn) /\ c.name = EmptyStr)
        => /\ Len(c.log) = 1
           /\ c.log[1].op = "db.Get"
           /\ c.res = (IF c.log[1].ok THEN ErrNotFound ELSE ErrDB)
           /\ db = c.preDB
           /\ file = c.preFile

\* a delete without name read the store and found nothing
C8_Witness ==
  \E p \in Procs :
    LET c == call[p]
    IN  /\ Returned(p) /\ IsDeleteFn(c.fn) /\ c.name = EmptyStr
        /\ c.log = <<Event("db.Get", TRUE)>>
        /\ c.res = ErrNotFound
        /\ db # EmptyDB

\* ------------------------------------------------------------------------
\* C9, C10
\* ------------------------------------------------------------------------

\* C9 as stated: a DeleteBackend/DeleteFrontend on a name that holds no
\* entity returns ErrNotFound, invokes no store delete, WriteConfig or
\* ReloadConfig, and leaves the database and the file as they were.
C9_AsStated ==
  \A p \in Procs :
    LET c == call[p]
    IN  (Returned(p) /\ IsDeleteFn(c.fn) /\ StoredIn(c.preDB, c) = Nil)
        => /\ c.res = ErrNotFound
           /\ NoMutationNoSync(c)
           /\ db = c.preDB
           /\ file = c.preFile

\* C9 (amended): a DeleteBackend/DeleteFrontend on a name that holds no
\* entity never gets past the prior-state read: it returns ErrNotFound, or
\* ErrDB when that read fails, invokes no store delete, WriteConfig or
\* ReloadConfig, and leaves the database and the file as they were.
C9_DeleteMissing ==
  \A p \in Procs :
    LET c == call[p]
    IN  (InCall(p) /\ IsDeleteFn(c.fn) /\ StoredIn(c.preDB, c) = Nil)
        => /\ pc[p] \in {"get", "done"}
           /\ NoMutationNoSync(c)
           /\ db = c.preDB
           /\ file = c.preFile
           /\ Returned(p) =>
                c.res = (IF Succeeded(c, "db.Get") THEN ErrNotFound ELSE ErrDB)

\* a delete of a missing name returned ErrNotFound while entities were stored
C9_Witness ==
  \E p \in Procs :
    LET c == call[p]
    IN  /\ Returned(p) /\ IsDeleteFn(c.fn)
        /\ c.name # EmptyStr
        /\ StoredIn(c.preDB, c) = Nil
        /\ c.res = ErrNotFound
        /\ db # EmptyDB

\* the store mutation of the apply step returned an error
ApplyFailed(c) == Failed(c, "db.Save") \/ Failed(c, "db.Delete")

\* C10: when the store write or the store remove of the apply step fails,
\* the call returns ErrDB at once: the failed mutation is the last thing it
\* did (no read-all, WriteConfig, ReloadConfig or compensating action), and
\* the file and the database are as they were before the call.
C10_ApplyFailureReturnsAtOnce ==
  \A p \in Procs :
    LET c == call[p]
    IN  (InCall(p) /\ ApplyFailed(c))
        => /\ Returned(p)
           /\ c.res = ErrDB
           /\ ~c.log[Len(c.log)].ok
           /\ c.log[Len(c.log)].op \in {"db.Save", "db.Delete"}
           /\ ~Invoked(c, "db.GetAllBackends")
           /\ ~Invoked(c, "db.GetAllFrontends")
           /\ ~Invoked(c, "ha.WriteConfig")
           /\ ~Invoked(c, "ha.ReloadConfig")
           /\ ~Invoked(c, "rollback")
           /\ file = c.preFile
           /\ db = c.preDB

\* the removal of a stored entity failed and the call returned ErrDB
C10_Witness ==
  \E p \in Procs :
    LET c == call[p]
    IN  /\ Returned(p)
        /\ Failed(c, "db.Delete")
        /\ StoredIn(c.preDB, c) # Nil
        /\ c.res = ErrDB

\* ------------------------------------------------------------------------
\* C11, C12
\* ------------------------------------------------------------------------

\* what a save or delete that meets no fault does, in order
SuccessLog(fn) ==
  << Event("db.Get", TRUE),
     Event(IF IsSaveFn(fn) THEN "db.Save" ELSE "db.Delete", TRUE),
     Event("db.GetAllBackends", TRUE),
     Event("db.GetAllFrontends", TRUE),
     Event("ha.WriteConfig", TRUE),
     Event("ha.ReloadConfig", TRUE) >>

\* C11: whenever a save or delete returns nil, the call applied its store
\* mutation, then read the complete sets of backends and frontends from
\* the store as it was after the mutation, then WriteConfig was invoked
\* with those sets and succeeded, and then ReloadConfig was invoked and
\* succeeded.
C11_SuccessMeansWrittenAndReloaded ==
  \A p \in Procs :
    LET c == call[p]
    IN  (Returned(p) /\ c.res = NoError)
        => /\ c.log = SuccessLog(c.fn)
           /\ c.b = GetAllBackends(Applied(c))
           /\ c.f = GetAllFrontends(Applied(c))
           /\ file = defaultTemplate(ToHAProxyFrontends(c.f), ToHAProxyBackends(c.b))

\* a delete returned nil and the sets it gave to WriteConfig still held
\* an entity
C11_Witness ==
  \E p \in Procs :
    LET c == call[p]
    IN  /\ Returned(p) /\ IsDeleteFn(c.fn)
        /\ c.res = NoError
        /\ c.log = SuccessLog(c.fn)
        /\ c.b # <<>> \/ c.f # <<>>
        /\ c.preDB # db

\* the configuration file last written without error, seen from the
\* returned call c: the one this call wrote, else the one it started from
LastWritten(c) == IF Succeeded(c, "ha.WriteConfig") THEN file ELSE c.preFile

HasSpace(name) == \E i \in 1..Len(name) : name[i] = " "

\* C15: after a SaveBackend/SaveFrontend of an entity whose name holds
\* spaces returned nil, the store key of the entity is the name with every
\* space replaced by an underscore, a Get of that key returns the entity
\* (which carries the replaced name), and a Get of the name as given
\* returns nil.
C15_NameNormalizedOnSave ==
  \A p \in Procs :
    LET c == call[p]
    IN  (Returned(p) /\ IsSaveFn(c.fn) /\ c.res = NoError /\ HasSpace(c.name))
        => /\ Len(c.key) = Len(c.name)
           /\ \A i \in 1..Len(c.name) :
                c.key[i] = (IF c.name[i] = " " THEN "_" ELSE c.name[i])
           /\ StoredIn(db, c) # Nil
           /\ StoredIn(db, c) = c.ent
           /\ Deref(c.ent).Name = c.key
           /\ StoredUnderName(db, c) = Nil

\* a backend saved as "b c" is stored as "b_c" and not as "b c"
C15_Witness ==
  \E p \in Procs :
    LET c == call[p]
    IN  /\ Returned(p) /\ c.fn = "SaveBackend" /\ c.res = NoError
        /\ c.name = NameBC
        /\ GetBackend(db, NameB_C) # Nil
        /\ Deref(GetBackend(db, NameB_C)).Name = NameB_C
        /\ GetBackend(db, NameBC) = Nil

\* ------------------------------------------------------------------------
\* C18
\* ------------------------------------------------------------------------

\* WriteConfig of the call of p has returned without error
HasWritten(p) ==
  \/ pc[p] = "reload"
  \/ Returned(p) /\ Succeeded(call[p], "ha.WriteConfig")

\* C18: the text written by WriteConfig in a save or delete is a function
\* of the store content alone: once WriteConfig has succeeded the file is
\* the template output for the complete frontend and backend sets of the
\* store, whatever the file held before and whatever calls led to that
\* store content. (Two runs that reach the same store content therefore
\* write the same file.)
C18_WrittenTextDeterminedByStore ==
  \A p \in Procs : HasWritten(p) => file = SyncText(db)

\* a file truncated by an earlier failed write was replaced by the
\* rendering of a store that holds a backend and a frontend
C18_Witness ==
  \E p \in Procs :
    LET c == call[p]
    IN  /\ HasWritten(p)
        /\ c.preFile = <<>>
        /\ GetAllBackends(db) # <<>>
        /\ GetAllFrontends(db) # <<>>
        /\ file = SyncText(db)

\* ------------------------------------------------------------------------
\* C19
\* ------------------------------------------------------------------------

\* no collaborator call of c returned an error
NoFault(c) == \A i \in 1..Len(c.log) : c.log[i].ok

\* C19: a DeleteBackend of a stored backend is not held back by frontends
\* that name it as DefaultBackend: it returns nil unless a collaborator
\* call fails, and the sets it gives to WriteConfig hold no backend of that
\* name and hold every stored frontend, the referencing ones included,
\* unchanged.
C19_DeleteReferencedBackend ==
  \A p \in Procs :
    LET c == call[p]
    IN  (Returned(p) /\ c.fn = "DeleteBackend" /\ StoredIn(c.preDB, c) # Nil)
        => /\ c.res = NoError <=> NoFault(c)
           /\ Invoked(c, "ha.WriteConfig") =>
                /\ \A i \in 1..Len(c.b) : c.b[i].Name # c.key
                /\ c.f = GetAllFrontends(c.preDB)

\* a backend was deleted while a stored frontend named it as DefaultBackend
C19_Witness ==
  \E p \in Procs :
    LET c == call[p]
    IN  /\ Returned(p) /\ c.fn = "DeleteBackend"
        /\ StoredIn(c.preDB, c) # Nil
        /\ c.res = NoError
        /\ \E i \in 1..Len(c.f) : c.f[i].DefaultBackend = c.key
        /\ GetBackend(db, c.key) = Nil

\* ------------------------------------------------------------------------
\* Vocabulary of the datastore properties
\* ------------------------------------------------------------------------

\* the client of the datastore has made a call, recorded in call[p]
InStore(p) == pc[p] = "store"

IsLdbSave(c)   == c.fn \in {"Datastore.SaveBackend", "Datastore.SaveFrontend"}
IsLdbDelete(c) == c.fn \in {"Datastore.DeleteBackend", "Datastore.DeleteFrontend"}
IsLdbGet(c)    == c.fn \in {"Datastore.GetBackend", "Datastore.GetFrontend"}
IsLdbGetAll(c) == c.fn \in {"Datastore.GetAllBackends", "Datastore.GetAllFrontends"}

\* Datastore.GetBackend / GetFrontend of key on database d
GetFrom(d, isBackend, key) ==
  IF isBackend THEN GetBackend(d, key) ELSE GetFrontend(d, key)

\* the place of the call's key in the client's book
BookKey(c) == <<KindOf(c.isBackend), c.key>>

\* ------------------------------------------------------------------------
\* C13
\* ------------------------------------------------------------------------

\* C13: after Datastore.SaveBackend/SaveFrontend of an entity e with a
\* non-empty name returned no error, ID and ProxyType are empty on the
\* caller's e and a Get of e.Name returns a value equal to e (so with empty
\* ID and ProxyType too), whether the save created or overwrote; and every
\* later Get of the name that returns no error returns the e last saved.
C13_StoreRoundTrip ==
  \A p \in Procs :
    LET c == call[p]
    IN  /\ (InStore(p) /\ IsLdbSave(c) /\ c.res = NoError /\ c.key # EmptyStr)
           => LET e == Deref(c.obj)
              IN  /\ e.ID = EmptyStr
                  /\ e.ProxyType = EmptyStr
                  /\ GetFrom(db, c.isBackend, e.Name) = Ptr(e)
        /\ ( /\ InStore(p) /\ IsLdbGet(c) /\ c.res = NoError
             /\ c.key # EmptyStr
             /\ BookKey(c) \in DOMAIN c.saved )
           => /\ c.out = Ptr(c.saved[BookKey(c)])
              /\ Deref(c.out).ID = EmptyStr
              /\ Deref(c.out).ProxyType = EmptyStr

\* a save overwrote a stored entity with another value, and a Get of the
\* name returns the new value
C13_Witness ==
  \E p \in Procs :
    LET c == call[p]
    IN  /\ InStore(p) /\ IsLdbSave(c) /\ c.res = NoError
        /\ c.key # EmptyStr
        /\ GetFrom(c.preDB, c.isBackend, c.key) # Nil
        /\ GetFrom(c.preDB, c.isBackend, c.key) # c.obj
        /\ GetFrom(db, c.isBackend, c.key) = c.obj

\* ------------------------------------------------------------------------
\* C14
\* ------------------------------------------------------------------------

\* C14: Datastore.DeleteBackend/DeleteFrontend of a name that is not
\* stored leaves the database as it was and returns no error for the
\* missing name: it returns nil unless LevelDB's own Delete fails.
C14_DeleteMissingIsNoop ==
  \A p \in Procs :
    LET c == call[p]
    IN  ( /\ InStore(p) /\ IsLdbDelete(c)
          /\ FullKey(c.isBackend, c.key) \notin DOMAIN c.preDB )
        => /\ db = c.preDB
           /\ c.res = (IF c.fault = "none" THEN NoError ELSE ErrDB)

\* a frontend name that is not stored was deleted without error while a
\* backend of the same name is stored
C14_Witness ==
  \E p \in Procs :
    LET c == call[p]
    IN  /\ InStore(p) /\ c.fn = "Datastore.DeleteFrontend"
        /\ GetFrontend(c.preDB, c.key) = Nil
        /\ GetBackend(c.preDB, c.key) # Nil
        /\ c.res = NoError
        /\ db = c.preDB

\* ------------------------------------------------------------------------
\* C16
\* ------------------------------------------------------------------------

\* C16: Datastore.GetBackend/GetFrontend of a name that is not stored
\* returns (nil, nil) unless the read itself fails; an error is returned
\* only for a read fault or for a decode fault on a stored value, it is
\* ErrDB, and so a missing name alone never yields ErrDB.
C16_AbsenceIsNotAnError ==
  \A p \in Procs :
    LET c == call[p]
        absent == FullKey(c.isBackend, c.key) \notin DOMAIN db
    IN  (InStore(p) /\ IsLdbGet(c))
        => /\ (absent /\ c.fault # "read") => (c.out = Nil /\ c.res = NoError)
           /\ c.res # NoError =>
                /\ c.res = ErrDB
                /\ c.out = Nil
                /\ c.fault = "read" \/ (c.fault = "decode" /\ ~absent)

\* a Get of a name that is not stored returned (nil, nil) from a database
\* that holds other entities
C16_Witness ==
  \E p \in Procs :
    LET c == call[p]
    IN  /\ InStore(p) /\ IsLdbGet(c)
        /\ FullKey(c.isBackend, c.key) \notin DOMAIN db
        /\ db # EmptyDB
        /\ c.out = Nil
        /\ c.res = NoError

\* ------------------------------------------------------------------------
\* C17
\* ------------------------------------------------------------------------

\* C17: when GetAllBackends (GetAllFrontends) returns no error, it returns
\* a non-nil sequence that holds exactly one entry for each backend
\* (frontend) name the client saved and did not delete since, each equal to
\* the value last saved under the name, no entry of the other kind, in
\* ascending order of the store keys; it is empty when there is none.
C17_GetAllListsSaved ==
  \A p \in Procs :
    LET c == call[p]
    IN  (InStore(p) /\ IsLdbGetAll(c) /\ c.res = NoError)
        => /\ c.out # Nil
           /\ LET xs   == Deref(c.out)
                  kind == KindOf(c.isBackend)
                  want == {k \in DOMAIN c.saved : k[1] = kind}
              IN  /\ Len(xs) = Cardinality(want)
                  /\ \A k \in want :
                       \E i \in 1..Len(xs) : xs[i].Name = k[2] /\ xs[i] = c.saved[k]
                  /\ \A i \in 1..Len(xs) : <<kind, xs[i].Name>> \in want
                  /\ \A i, j \in 1..Len(xs) :
                       i < j => BytesLess(FullKey(c.isBackend, xs[i].Name),
                                          FullKey(c.isBackend, xs[j].Name))

\* GetAllBackends returned two backends while a frontend is stored too
C17_Witness ==
  \E p \in Procs :
    LET c == call[p]
    IN  /\ InStore(p) /\ c.fn = "Datastore.GetAllBackends"
        /\ c.res = NoError
        /\ c.out # Nil
        /\ Len(Deref(c.out)) = 2
        /\ \E k \in DOMAIN c.saved : k[1] = S_frontend

\* ------------------------------------------------------------------------
\* C20
\* ------------------------------------------------------------------------

\* part occurs in text
Contains(text, part) ==
  \E i \in 0..(Len(text) - Len(part)) : SubSeq(text, i + 1, i + Len(part)) = part

\* the section of the configuration file for the entity that call c saved
SectionOf(c) ==
  IF IsBackendFn(c.fn) THEN RenderBackend(ToHAProxyBackend(Deref(c.ent)))
  ELSE RenderFrontend(ToHAProxyFrontend(Deref(c.ent)))

\* the calls c1 and c2 save under different store keys
DifferentNames(c1, c2) ==
  IsBackendFn(c1.fn) # IsBackendFn(c2.fn) \/ c1.key # c2.key

\* C20: when two saves to different names that ran concurrently have both
\* returned nil, the store holds both entities and the configuration file
\* last written holds the sections of both.
C20_ConcurrentSavesBothInFile ==
  \A p, q \in Procs :
    LET c1 == call[p]
        c2 == call[q]
    IN  ( /\ p # q
          /\ Returned(p) /\ Returned(q)
          /\ IsSaveFn(c1.fn) /\ IsSaveFn(c2.fn)
          /\ DifferentNames(c1, c2)
          /\ c1.res = NoError /\ c2.res = NoError )
        => /\ StoredIn(db, c1) = c1.ent
           /\ StoredIn(db, c2) = c2.ent
           /\ Contains(file, SectionOf(c1))
           /\ Contains(file, SectionOf(c2))

\* ------------------------------------------------------------------------
\* C22
\* ------------------------------------------------------------------------

\* how many times the call invoked one of the collaborator operations ops
Count(c, ops) == Cardinality({i \in 1..Len(c.log) : c.log[i].op \in ops})

\* the store mutation of a save or delete call
Mutation == {"db.Save", "db.Delete"}

\* C22: nothing is retried. Within a single save or delete call the store
\* mutation is applied at most once, WriteConfig is invoked at most once,
\* ReloadConfig is invoked at most once, and the compensating action is
\* invoked at most once.
C22_NothingRetried ==
  \A p \in Procs :
    InCall(p) =>
      /\ Count(call[p], Mutation) <= 1
      /\ Count(call[p], {"ha.WriteConfig"}) <= 1
      /\ Count(call[p], {"ha.ReloadConfig"}) <= 1
      /\ Count(call[p], {"rollback"}) <= 1

\* a call whose WriteConfig failed has returned after one store mutation,
\* one WriteConfig and one compensating action
C22_Witness ==
  \E p \in Procs :
    /\ Returned(p)
    /\ Failed(call[p], "ha.WriteConfig")
    /\ Count(call[p], Mutation) = 1
    /\ Count(call[p], {"ha.WriteConfig"}) = 1
    /\ Count(call[p], {"rollback"}) = 1

\* ------------------------------------------------------------------------
\* C29
\* ------------------------------------------------------------------------

\* every invocation of an operation in later was preceded, in the same
\* call, by an invocation of an operation in earlier that returned no error
Precedes(c, earlier, later) ==
  \A j \in 1..Len(c.log) :
    c.log[j].op \in later =>
      \E i \in 1..(j - 1) : c.log[i].op \in earlier /\ c.log[i].ok

\* C29: step ordering inside every save or delete. The prior-state read
\* precedes the store mutation, the store mutation precedes the read of all
\* backends and all frontends, that read precedes WriteConfig, ReloadConfig
\* is invoked only after WriteConfig returned success in the same call, and
\* the compensating action is invoked only after a store mutation was
\* applied in the same call.
C29_StepOrdering ==
  \A p \in Procs :
    InCall(p) =>
      LET c == call[p]
      IN  /\ Precedes(c, {"db.Get"}, Mutation)
          /\ Precedes(c, Mutation, {"db.GetAllBackends", "db.GetAllFrontends"})
          /\ Precedes(c, {"db.GetAllBackends"}, {"ha.WriteConfig"})
          /\ Precedes(c, {"db.GetAllFrontends"}, {"ha.WriteConfig"})
          /\ Precedes(c, {"ha.WriteConfig"}, {"ha.ReloadConfig"})
          /\ Precedes(c, Mutation, {"rollback"})

\* a call has gone through every step up to a reload that succeeded
C29_Witness ==
  \E p \in Procs :
    /\ Returned(p)
    /\ Succeeded(call[p], "ha.ReloadConfig")
    /\ Len(call[p].log) = 6

\* ------------------------------------------------------------------------
\* C30
\* ------------------------------------------------------------------------

\* a store read of the synchronize step failed
SyncReadFailed(c) ==
  Failed(c, "db.GetAllBackends") \/ Failed(c, "db.GetAllFrontends")

\* C30: whenever a save or delete returns an error of type ErrDB, the store
\* content is unchanged by that call and neither WriteConfig nor
\* ReloadConfig was invoked; a store read failure during the synchronize
\* step is not reported as ErrDB but triggers the compensating action and
\* yields ErrSync or ErrOutOfSync.
C30_ErrDBMeansUntouched ==
  \A p \in Procs :
    LET c == call[p]
    IN  /\ (Returned(p) /\ c.res = ErrDB) =>
             /\ db = c.preDB
             /\ ~Invoked(c, "ha.WriteConfig")
             /\ ~Invoked(c, "ha.ReloadConfig")
        /\ (Returned(p) /\ SyncReadFailed(c)) =>
             /\ Invoked(c, "rollback")
             /\ c.res \in {ErrSync, ErrOutOfSync}

\* a call on a store that holds entities has returned ErrDB because its
\* store mutation failed
C30_Witness ==
  \E p \in Procs :
    /\ Returned(p)
    /\ call[p].res = ErrDB
    /\ Count(call[p], Mutation) = 1
    /\ call[p].preDB # EmptyDB

\* ------------------------------------------------------------------------
\* C28
\* ------------------------------------------------------------------------

\* what a Get of the corrected form of name returns from database d
StoredNormalized(d, fn, name) ==
  IF IsBackendFn(fn) THEN GetBackend(d, correctName(name))
  ELSE GetFrontend(d, correctName(name))

\* call c is a delete under a name with spaces, begun when the store held
\* an entity under the corrected form of that name, which is where a save
\* under that same name puts it
DeleteBySpacedName(c) ==
  /\ IsDeleteFn(c.fn)
  /\ HasSpace(c.name)
  /\ StoredNormalized(c.preDB, c.fn, c.name) # Nil

\* C28 as stated: delete applies the same name normalization as save.
\* After an entity was saved under a name containing spaces,
\* DeleteBackend/DeleteFrontend called with that same name removes it
\* rather than reporting ErrNotFound (no collaborator call failing).
C28_AsStated ==
  \A p \in Procs :
    LET c == call[p]
    IN  (Returned(p) /\ DeleteBySpacedName(c) /\ NoFault(c))
        => /\ c.res = NoError
           /\ StoredNormalized(db, c.fn, c.name) = Nil

\* C28 (amended): delete applies no name normalization. After an entity
\* was saved under a name containing spaces, DeleteBackend/DeleteFrontend
\* called with that same name looks the name up as given, finds nothing and
\* returns ErrNotFound (ErrDB when that read fails); the entity stays
\* stored under the name with underscores and no store mutation, render or
\* reload takes place.
C28_DeleteDoesNotNormalize ==
  \A p \in Procs :
    LET c == call[p]
    IN  (Returned(p) /\ DeleteBySpacedName(c))
        => /\ c.key = c.name
           /\ c.res = IF NoFault(c) THEN ErrNotFound ELSE ErrDB
           /\ NoMutationNoSync(c)
           /\ db = c.preDB
           /\ StoredNormalized(db, c.fn, c.name) # Nil

\* a delete under the name with spaces has returned ErrNotFound while the
\* entity is stored under the name with underscores
C28_Witness ==
  \E p \in Procs :
    /\ Returned(p)
    /\ DeleteBySpacedName(call[p])
    /\ call[p].res = ErrNotFound

\* ------------------------------------------------------------------------
\* C21
\* ------------------------------------------------------------------------

\* the calls c1 and c2 work on the same store key
SameKey(c1, c2) ==
  IsBackendFn(c1.fn) = IsBackendFn(c2.fn) /\ c1.key = c2.key

\* the save of goroutine p returned nil and the store does not hold its value
LostUpdate(p) ==
  /\ Returned(p)
  /\ IsSaveFn(call[p].fn)
  /\ call[p].res = NoError
  /\ StoredIn(db, call[p]) # call[p].ent

\* C21: the prior state is read without a lock, so a call that returned
\* success can find its value gone from the store; when that happens
\* another call on the same name has applied its store mutation or its
\* compensating action. A call that runs alone never loses its value.
C21_LostUpdateIsByOtherCall ==
  \A p \in Procs :
    LostUpdate(p) =>
      \E q \in Procs \ {p} :
        /\ SameKey(call[p], call[q])
        /\ Count(call[q], Mutation) = 1
        /\ Succeeded(call[q], "db.Save") \/ Succeeded(call[q], "db.Delete")
             \/ Succeeded(call[q], "rollback")

\* the lost update: both calls have returned, the save of p returned nil,
\* the save of q read the prior state (nothing) without a lock, failed in
\* its synchronize step and ran its compensating action, a delete, and the
\* final store holds nothing under the name
C21_Witness ==
  \E p, q \in Procs :
    /\ p # q
    /\ LostUpdate(p)
    /\ Returned(q)
    /\ IsSaveFn(call[q].fn)
    /\ SameKey(call[p], call[q])
    /\ call[q].old = Nil
    /\ Succeeded(call[q], "rollback")
    /\ call[q].res = ErrSync
    /\ StoredIn(db, call[p]) = Nil

\* ------------------------------------------------------------------------
\* C23
\* ------------------------------------------------------------------------

\* the call of goroutine p has started the reload command and waits for
\* it: cmd.Run() has not returned
WaitsForReload(p) == pc[p] = "reload"

\* C23: a reload command that never returns blocks the originating save or
\* delete forever. While the call waits for the command it has no result
\* and has run no compensating action, and the only step that takes it out
\* of the wait is the return of the command: no timeout and no
\* compensating action fires.
C23_HungReloadBlocks ==
  [][ \A p \in Procs :
        WaitsForReload(p) =>
          /\ call[p].res = Pending
          /\ ~Invoked(call[p], "rollback")
          /\ \/ WaitsForReload(p)' /\ call'[p] = call[p]
             \/ /\ pc'[p] = "done"
                /\ call'[p].log = Append(call[p].log, Event("ha.ReloadConfig", TRUE))
                     \/ call'[p].log = Append(call[p].log, Event("ha.ReloadConfig", FALSE)) ]_vars

\* a call has mutated the store and written the file and waits for the
\* reload command
C23_Witness ==
  \E p \in Procs :
    /\ WaitsForReload(p)
    /\ Succeeded(call[p], "ha.WriteConfig")
    /\ db # call[p].preDB

\* ------------------------------------------------------------------------
\* C24
\* ------------------------------------------------------------------------

\* the handler of goroutine p has answered its request
Responded(p) == pc[p] = "responded"

\* the handler of goroutine p has answered a request of the given method
\* after the data service returned err
Served(p, method, err) ==
  /\ Responded(p)
  /\ call[p].http.method = method
  /\ call[p].res = err

\* C24: PUT /backends/{name} and PUT /frontends/{name} respond 201 when the
\* call creates a new entity and 200 when it updates an entity that
\* already existed.
C24_PutCreatedOrUpdated ==
  \A p \in Procs :
    LET c == call[p]
    IN  Served(p, "PUT", NoError) =>
          c.http.status = IF StoredIn(c.preDB, c) = Nil THEN StatusCreated
                          ELSE StatusOK

\* ------------------------------------------------------------------------
\* C25
\* ------------------------------------------------------------------------

\* C25: DELETE /backends/{name} and DELETE /frontends/{name} respond with
\* status 200 when the entity existed and was deleted, and 404 when it does
\* not exist.
C25_DeleteStatus ==
  \A p \in Procs :
    LET c == call[p]
    IN  /\ (Served(p, "DELETE", NoError) /\ StoredIn(c.preDB, c) # Nil)
             => c.http.status = StatusOK
        /\ (Served(p, "DELETE", ErrNotFound) /\ StoredIn(c.preDB, c) = Nil)
             => c.http.status = StatusNotFound

\* ------------------------------------------------------------------------
\* C26
\* ------------------------------------------------------------------------

\* the call made no use of the data service beyond the handler's lookup
NoSave(c) ==
  /\ c.res = Pending
  /\ \A i \in 1..Len(c.log) : c.log[i].op = "svc.Get"

\* C26: POST /backends/{name} and POST /frontends/{name} on a name that
\* holds no entity respond 404 and invoke no save; the store is unchanged.
\* (When the lookup itself fails the handler panics and the answer is 500,
\* again without a save.)
C26_PostMissingIs404 ==
  \A p \in Procs :
    LET c == call[p]
    IN  ( /\ Responded(p)
          /\ c.http.method = "POST"
          /\ StoredUnderName(c.preDB, c) = Nil )
        => /\ c.http.status = IF Succeeded(c, "svc.Get") THEN StatusNotFound
                              ELSE StatusInternalServerError
           /\ NoSave(c)
           /\ db = c.preDB
           /\ file = c.preFile

\* a POST on a name that holds no entity, while the store holds another
\* entity, has been answered 404
C26_Witness ==
  \E p \in Procs :
    /\ Responded(p)
    /\ call[p].http.method = "POST"
    /\ StoredUnderName(call[p].preDB, call[p]) = Nil
    /\ call[p].preDB # EmptyDB
    /\ call[p].http.status = StatusNotFound

\* ------------------------------------------------------------------------
\* C27
\* ------------------------------------------------------------------------

\* GetConfig of process p has returned a config
Configured(p) == pc[p] = "configured" /\ call[p].errs = <<>>

\* setting s is given both in the config file named by -f and by a flag
GivenTwice(c, s) ==
  /\ c.cfile.kind = "json"
  /\ s \in DOMAIN c.cfile.doc
  /\ c.flags[s] # EmptyStr

\* C27: when a setting is given both in the config file named by -f and by
\* a command-line flag, the value from the config file overwrites the value
\* of the command-line flag.
C27_FileOverwritesFlags ==
  \A p \in Procs :
    Configured(p) =>
      \A s \in Settings :
        GivenTwice(call[p], s) => call[p].config[s] = call[p].cfile.doc[s]

\* ------------------------------------------------------------------------
\* C31
\* ------------------------------------------------------------------------

\* the results a save or delete may return
Outcomes == {NoError, ErrBadData, ErrNotFound, ErrSync, ErrOutOfSync, ErrDB}

\* C31: the result of every save and delete is one of success, ErrBadData,
\* ErrNotFound, ErrSync, ErrOutOfSync, ErrDB; ErrConflict and ErrUnknown
\* are never returned, ErrNotFound is returned only by delete calls and
\* ErrBadData only before any store access.
C31_ResultSet ==
  \A p \in Procs :
    LET c == call[p]
    IN  Returned(p) =>
          /\ c.res \in Outcomes
          /\ c.res \notin {ErrConflict, ErrUnknown}
          /\ c.res = ErrNotFound => IsDeleteFn(c.fn)
          /\ c.res = ErrBadData => c.log = <<>> /\ db = c.preDB

\* a save on a store that holds entities has returned ErrBadData
C31_Witness ==
  \E p \in Procs :
    /\ Returned(p)
    /\ call[p].res = ErrBadData
    /\ call[p].preDB # EmptyDB

\* ------------------------------------------------------------------------
\* C32
\* ------------------------------------------------------------------------

\* what GetAllBackends / GetAllFrontends returns from database d
AllFrom(d, isBackend) ==
  IF isBackend THEN GetAllBackends(d) ELSE GetAllFrontends(d)

\* how many stored entities of the kind carry the name
StoredCount(d, isBackend, name) ==
  Cardinality({i \in 1..Len(AllFrom(d, isBackend)) :
                 AllFrom(d, isBackend)[i].Name = name})

\* C32: upsert invariant of the store. After any sequence of saves and
\* deletes there is at most one stored entity per (kind, name); a save on
\* an existing name replaces its whole value, and Get returns the most
\* recently saved value for that name, or absent if the latest operation on
\* it was a delete (or nothing was saved under it).
C32_UpsertInvariant ==
  \A p \in Procs :
    InStore(p) =>
      \A isBackend \in BOOLEAN, name \in NameInputs :
        LET k == <<KindOf(isBackend), name>>
        IN  /\ StoredCount(db, isBackend, name) <= 1
            /\ GetFrom(db, isBackend, name) =
                 IF k \in DOMAIN call[p].saved THEN Ptr(call[p].saved[k]) ELSE Nil

\* a stored name was deleted and Get finds it no more, while another
\* entity stays stored
C32_Witness ==
  \E p \in Procs :
    LET c == call[p]
    IN  /\ InStore(p) /\ IsLdbDelete(c) /\ c.res = NoError
        /\ GetFrom(c.preDB, c.isBackend, c.key) # Nil
        /\ GetFrom(db, c.isBackend, c.key) = Nil
        /\ db # EmptyDB


\* ------------------------------------------------------------------------
\* Vocabulary of the HAProxy file properties
\* ------------------------------------------------------------------------

\* p's last call of the HAProxy interface was fn
HaCalled(p, fn) == pc[p] = "ha" /\ call[p].fn = fn

\* p's last call read the file that a successful WriteConfig produced, and
\* reading the file did not fail
ReadBack(p, fn) ==
  /\ HaCalled(p, fn)
  /\ call[p].written # Nil
  /\ call[p].err # ReadFileError

\* no white space in the value
NoSpaces(s) == \A i \in 1..Len(s) : ~IsSpace(s[i])

\* the frontend carries only name, bind, mode, default backend and option
PlainFrontend(f) ==
  /\ f.ID = EmptyStr /\ f.ProxyType = EmptyStr
  /\ \A v \in {f.Name, f.Bind, f.Mode, f.DefaultBackend, f.Option} : NoSpaces(v)

\* the backend carries only name, mode, balance and members with name, host
\* and port
PlainBackend(b) ==
  /\ b.ID = EmptyStr /\ b.ProxyType = EmptyStr
  /\ b.Version = EmptyStr /\ b.Host = EmptyStr
  /\ \A v \in {b.Name, b.Mode, b.Balance} : NoSpaces(v)
  /\ \A i \in 1..Len(b.Members) :
       /\ b.Members[i].Version = EmptyStr
       /\ NoSpaces(b.Members[i].Name) /\ NoSpaces(b.Members[i].Host)

\* every entity of the list satisfies P
All(list, P(_)) == \A i \in 1..Len(list) : P(list[i])

\* the entity has a name
Named(e) == e.Name # EmptyStr

\* ------------------------------------------------------------------------
\* C33
\* ------------------------------------------------------------------------

HeaderIsLastLine(p) ==
  LET lines == parseConfigText(call[p].text)
      last  == lines[Len(lines)]
  IN  \/ HaCalled(p, "GetFrontends") /\ Directive(last, P_frontend)
      \/ HaCalled(p, "GetBackends") /\ Directive(last, P_backend)

\* the entity has nothing set but its name
OnlyNameSet(e) ==
  \A field \in DOMAIN e \ {"Name"} : e[field] = EmptyStr

\* C34 as stated: for every configuration text GetFrontends and GetBackends
\* finish without fault, and a header that is the last line of the file
\* yields, as the last entity returned, an entity with only its name set.
\* It fails: the header in the last line makes the call panic
C34_AsStated ==
  \A p \in Procs :
    HaCalled(p, "GetFrontends") \/ HaCalled(p, "GetBackends")
    => /\ call[p].fault = "none"
       /\ HeaderIsLastLine(p) /\ call[p].err = NoParseError
          => /\ call[p].out # Nil
             /\ Deref(call[p].out) # <<>>
             /\ OnlyNameSet(Deref(call[p].out)[Len(Deref(call[p].out))])


\* ------------------------------------------------------------------------
\* C35
\* ------------------------------------------------------------------------

\* the line is a server line that lacks the five space-separated fields
\* after "server ", or whose second field has no colon or no integer port
MalformedServerLine(l) ==
  /\ Directive(l, P_server)
  /\ LET parts == Split(After(l, P_server), " ")
     IN  \/ Len(parts) # 5
         \/ Index(parts[2], ":") = 0
         \/ ~AtoiOK(SubSeq(parts[2], Index(parts[2], ":") + 1, Len(parts[2])))

\* line k lies in the block of the backend header in line i: no empty line
\* from the line after the header to line k
InBackendBlock(lines, i, k) ==
  /\ Directive(lines[i], P_backend)
  /\ i < k /\ k <= Len(lines)
  /\ \A j \in (i+1)..k : lines[j] # EmptyStr

\* the header lines of the backend blocks that hold a malformed server line
BadBackendBlocks(lines) ==
  { i \in 1..Len(lines) :
      \E k \in 1..Len(lines) :
        InBackendBlock(lines, i, k) /\ MalformedServerLine(lines[k]) }

\* C35: whenever a server line inside a backend block of the file is
\* malformed, GetBackends (having read the file) returns no backends and
\* the error that names the backend of that block, the first such block of
\* the file
C35_MalformedServerLine ==
  \A p \in Procs :
    HaCalled(p, "GetBackends") /\ call[p].err # ReadFileError
    => LET lines == parseConfigText(call[p].text)
           bad   == BadBackendBlocks(lines)
       IN  bad # {}
           => LET first == CHOOSE i \in bad : \A j \in bad : i <= j
              IN  /\ call[p].fault = "none"
                  /\ call[p].out = Nil
                  /\ call[p].err = MembersError(After(lines[first], P_backend))

\* C35 witness: GetBackends failed on a malformed server line in the block
\* of the second backend of the file, and the error names that backend
C35_Witness ==
  \E p \in Procs :
    /\ HaCalled(p, "GetBackends")
    /\ call[p].out = Nil
    /\ call[p].err = MembersError(<<"b">>)
    /\ LET lines == parseConfigText(call[p].text)
       IN  /\ Directive(lines[1], P_backend) /\ After(lines[1], P_backend) = <<"a">>
           /\ BadBackendBlocks(lines) = {3}


\* ------------------------------------------------------------------------
\* C36
\* ------------------------------------------------------------------------

\* the statuses of success the handlers answer
SuccessStatuses == {StatusOK, StatusCreated, StatusNoContent}

\* C36: when the data service returned an error to a PUT, POST or DELETE
\* handler, the handler answers 400 for ErrBadData of a save, 404 for
\* ErrNotFound of a delete, and panics (the recovery middleware answers
\* 500) for every other error; so ErrDB, ErrSync and ErrOutOfSync are never
\* answered with a status of success
C36_ServiceErrorsPanic ==
  \A p \in Procs :
    LET c == call[p]
    IN  Responded(p) /\ c.res \notin {Pending, NoError}
        => /\ c.http.method \in {"PUT", "POST", "DELETE"}
           /\ c.http.status =
                IF c.http.method \in {"PUT", "POST"} /\ c.res = ErrBadData
                  THEN StatusBadRequest
                ELSE IF c.http.method = "DELETE" /\ c.res = ErrNotFound
                  THEN StatusNotFound
                ELSE StatusInternalServerError
           /\ c.res \in {ErrDB, ErrSync, ErrOutOfSync}
                => c.http.status \notin SuccessStatuses

\* C36 witness: a POST whose save returned ErrOutOfSync after the entity
\* had been saved was answered by a panic
C36_Witness ==
  \E p \in Procs :
    /\ Served(p, "POST", ErrOutOfSync)
    /\ Succeeded(call[p], "db.Save")
    /\ call[p].http.status = StatusInternalServerError


\* ------------------------------------------------------------------------
\* C37
\* ------------------------------------------------------------------------

\* the names of the entities of one kind stored in database d
StoredNames(d, isBackend) ==
  {AllFrom(d, isBackend)[i].Name : i \in 1..Len(AllFrom(d, isBackend))}

\* C37 as stated: after a successful POST /backends/{name} or
\* /frontends/{name}, whatever the request body, the set of stored names of
\* that kind is the same as before the call. It fails for a body that
\* carries another name
C37_AsStated ==
  \A p \in Procs :
    Served(p, "POST", NoError)
    => StoredNames(db, IsBackendFn(call[p].fn))
         = StoredNames(call[p].preDB, IsBackendFn(call[p].fn))


\* ------------------------------------------------------------------------
\* C38
\* ------------------------------------------------------------------------

\* the goroutine whose request arrived first
FirstCaller == CHOOSE p \in Procs : \A q \in Procs : p <= q

\* every goroutine has made its call on the name, and every call returned
\* ErrSync
AllReturnedErrSync ==
  \A p \in Procs : Returned(p) /\ call[p].res = ErrSync

\* C38 as stated: when concurrent saves and deletes on the same name have
\* all returned ErrSync, the store content equals the store content before
\* any of them started. It fails: a compensating action restores a prior
\* state that was read after another call applied its change
C38_AsStated ==
  AllReturnedErrSync => db = call[FirstCaller].preDB


\* ------------------------------------------------------------------------
\* C40
\* ------------------------------------------------------------------------

\* C40 as stated: after Datastore.SaveBackend or Datastore.SaveFrontend
\* returns, with success or with ErrDB, the caller's entity has empty ID and
\* ProxyType fields. It fails when the save returns ErrDB
C40_AsStated ==
  \A p \in Procs :
    LET c == call[p]
    IN  InStore(p) /\ IsLdbSave(c) /\ c.res \in {NoError, ErrDB}
        => /\ Deref(c.obj).ID = EmptyStr
           /\ Deref(c.obj).ProxyType = EmptyStr


\* ------------------------------------------------------------------------
\* C39
\* ------------------------------------------------------------------------

\* goroutine p is inside serverImpl.Stop
InStop(p) == pc[p] \in {"check", "set", "send", "close"}

\* C39 as stated: for any number and interleaving of Stop, SignalShutdown
\* and SignalRestart calls, no more than one value is sent on stopChan and
\* stopChan is never closed twice (no call panics on the closed channel);
\* and once a call has set s.shutdown and no call is inside Stop, exactly
\* one value was sent and the channel was closed once. It fails for calls
\* that run concurrently
C39_AsStated ==
  LET s == Deref(Server)
  IN  /\ s.fault = "none"
      /\ s.stopChan.sent <= 1
      /\ s.stopChan.closed <= 1
      /\ (s.shutdown /\ \A p \in Procs : ~InStop(p))
           => s.stopChan.sent = 1 /\ s.stopChan.closed = 1

====
